---------------------------- MODULE Spec2Model ----------------------------
(***************************************************************************)
(* AT32-WebISP: the serial transport (WebSerialInterface and               *)
(* MockSerialInterface), the AT32 bootloader protocol engine               *)
(* (AT32Protocol) and their callers, as a state machine.                   *)
(*                                                                         *)
(* Conventions.  A byte is a number 0..255, a frame or a buffer a sequence *)
(* of bytes.  JavaScript's 32-bit integer operators are modelled on        *)
(* integers with ToInt32 / ToUint32 and bitwise operators computed bit by  *)
(* bit.  An async function is cut at its awaits that wait for something    *)
(* outside the function (a timer, the port, the user, the device); the     *)
(* code between two such awaits is one action.                             *)
(*                                                                         *)
(* Time.  read() measures Date.now() - startTime; the model keeps that     *)
(* difference (rd.elapsed).  setTimeout(r, 10) resumes the read after at   *)
(* least 10 ms: a sleep lasts PollMs, or LateMs when the timer runs late   *)
(* (a throttled tab).  Timers run in the order of their due times.         *)
(***************************************************************************)
EXTENDS Integers, Sequences, FiniteSets, TLC

VARIABLES
    impl,         \* "web" (WebSerialInterface) or "mock" (MockSerialInterface)
    status,       \* ISerialInterface.status
    port,         \* WebSerialInterface.port: "null", "closed" (a port not open), "open"
    keepReading,  \* WebSerialInterface.keepReading
    loop,         \* readLoop / readingPromise: "none", "reading", "cancelled", "done"
    buffer,       \* the transport's buffer
    timers,       \* MockSerialInterface: pending setTimeout pushes, <<[rem, bytes]>>
    cpc,          \* connect() in flight: "idle", "request", "open"
    dpc,          \* disconnect() in flight: "idle", "cancel", "join", "close"
    dres,         \* outcome of the last disconnect(): "none", "ok", "error"
    rd,           \* the read() call in flight or its outcome
    wr,           \* outcome of the last write(): "none", "ok", "error"
    ingested,     \* history: bytes appended to the buffer since the last flush
    consumed,     \* history: bytes returned by reads since the last flush
    stale,        \* history: bytes at the head of the buffer that were received
                  \* before the operation in flight wrote its request
    op,           \* the protocol operation in flight: name, pc, arguments, locals
    ret,          \* outcome of the last protocol operation
    wire,         \* history: the transport calls of the operation in flight
    appStatus,    \* App: status
    useMock,      \* App: useMock
    serialRef,    \* App: serialRef.current, 0 for null, else the transport created
    protocolRef,  \* App: protocolRef.current, 0 for null, else its transport
    file,         \* App: file, <<>> for null, else <<file.data.length>>
    serials,      \* App: the transports created by connect(), in order
    tasks,        \* App: the calls of connect, disconnect, erase, program in flight
    parseIn,      \* FileParsers: the input of the call
    parseOut,     \* FileParsers: what the call returned or threw
    job,          \* programming: the file, the chunk in progress, the calls made
    dev,          \* the device: the frame it expects and the address it was sent
    flash         \* the device: the bytes it stores, by address

vars == <<impl, status, port, keepReading, loop, buffer, timers, cpc, dpc, dres,
          rd, wr, ingested, consumed, stale, op, ret, wire, appStatus, useMock, serialRef,
          protocolRef, file, serials, tasks, parseIn, parseOut, job, dev, flash>>

tvars == <<impl, status, port, keepReading, loop, buffer, timers, cpc, dpc, dres, rd, wr>>
hvars == <<ingested, consumed, stale>>
pvars == <<op, ret, wire>>
avars == <<appStatus, useMock, serialRef, protocolRef, file, serials, tasks>>
fvars == <<parseIn, parseOut>>
dvars == <<job, dev, flash>>

-----------------------------------------------------------------------------
(* Bounds of the model *)

\* most bytes the mock pushes between two flushes
MaxIngest == 8
\* most bytes the device sends between two flushes
MaxStream == 4
\* most sleeps of exactly PollMs within one read
MaxPolls == 3
\* length of a sleep whose timer runs late
LateMs == 1000
\* length of a sleep that outlasts the longest timeout of a read
LongMs == 10000
\* most records of an Intel HEX text
MaxRecords == 3
\* most program headers of an ELF file
MaxHeaders == 2
\* transports that connect() of the application creates in one run
MaxSerials == 2
\* calls of the application's handlers in flight at once
MaxTasks == 2
\* largest count a caller of read() asks for directly
MaxCount == 2

-----------------------------------------------------------------------------
(* Program constants *)

ACK == 121
NACK == 31
PollMs == 10
DefaultTimeoutMs == 1000
MockDelayMs == 50

-----------------------------------------------------------------------------
(* JavaScript numbers *)
(* The checker's integers are 32 bits wide, so a number that may leave the *)
(* range below 2^31 (an address, a product id, a CRC) is kept wide: a pair *)
(* <<hi, lo>> that stands for hi * 2^16 + lo with lo in 0..65535.          *)

RECURSIVE Pow2(_)
Pow2(n) == IF n = 0 THEN 1 ELSE 2 * Pow2(n - 1)

H16 == Pow2(16)

BitFn(f, a, b) ==
    CASE f = "and" -> IF a = 1 /\ b = 1 THEN 1 ELSE 0
      [] f = "or"  -> IF a = 1 \/ b = 1 THEN 1 ELSE 0
      [] f = "xor" -> IF a # b THEN 1 ELSE 0

RECURSIVE BitOp(_, _, _, _)
BitOp(f, a, b, w) ==
    IF w = 0 THEN 0
    ELSE BitFn(f, a % 2, b % 2) + 2 * BitOp(f, a \div 2, b \div 2, w - 1)

\* a ^ b, a & b of operands in 0..2^31-1, which ToInt32 leaves as they are
Xor(a, b) == BitOp("xor", a, b, 31)
And(a, b) == BitOp("and", a, b, 31)

\* a number below 2^31 in magnitude as a wide number, and back
Wide(x) == <<x \div H16, x % H16>>
Narrow(w) == w[1] * H16 + w[2]

WAdd(a, b) == <<a[1] + b[1] + ((a[2] + b[2]) \div H16), (a[2] + b[2]) % H16>>

\* ToUint32 and ToInt32 of a wide number
ToUint32(w) == <<w[1] % H16, w[2]>>
ToInt32(w) == <<((w[1] + Pow2(15)) % H16) - Pow2(15), w[2]>>

\* a & b, a | b, a ^ b: the operands to Int32, the result an Int32
WBit(f, a, b) ==
    LET ua == ToUint32(a)
        ub == ToUint32(b)
    IN  ToInt32(<<BitOp(f, ua[1], ub[1], 16), BitOp(f, ua[2], ub[2], 16)>>)

\* a << k for 0 < k < 32
Shl(a, k) ==
    LET u == ToUint32(a)
    IN  IF k >= 16
        THEN ToInt32(<<(u[2] * Pow2(k - 16)) % H16, 0>>)
        ELSE ToInt32(<<(u[1] * Pow2(k) + ((u[2] * Pow2(k)) \div H16)) % H16,
                       (u[2] * Pow2(k)) % H16>>)

\* a >> k (sign-propagating) for 0 < k < 32
Sar(a, k) ==
    LET s == ToInt32(a)
    IN  IF k >= 16
        THEN Wide(s[1] \div Pow2(k - 16))
        ELSE <<s[1] \div Pow2(k),
               (s[1] % Pow2(k)) * Pow2(16 - k) + (s[2] \div Pow2(k))>>

\* a >>> 0
Ushr0(a) == ToUint32(a)

\* the value a Uint8Array element keeps of a number stored into it
U8(x) == x % 256

\* new Uint8Array([...]) of a list of numbers
Uint8Array(s) == [i \in 1..Len(s) |-> U8(s[i])]

\* JavaScript's undefined, kept apart from every byte and every Int32 operand
Undefined == -1

\* array[i] of JavaScript (index from 0): undefined past the end
At(s, i) == IF i + 1 \in 1..Len(s) THEN s[i + 1] ELSE Undefined

\* ToInt32 of an operand that may be undefined (undefined -> NaN -> 0)
Num(x) == IF x = Undefined THEN 0 ELSE x

\* array.slice(a, b) and array.slice(a) of JavaScript (index from 0)
Slice(s, a, b) == SubSeq(s, a + 1, IF b < Len(s) THEN b ELSE Len(s))
SliceFrom(s, a) == SubSeq(s, a + 1, Len(s))

-----------------------------------------------------------------------------
(* Transport: state after construction *)

NoRead == [st |-> "none", count |-> 0, timeoutMs |-> 0, elapsed |-> 0,
           last |-> 0, polls |-> 0, data |-> <<>>, got |-> 0]

NoOp == [name |-> "none", pc |-> "idle", addr |-> <<0, 0>>, arg |-> 0, data |-> <<>>,
         loc |-> <<>>]

NoRet == [st |-> "none", err |-> "", val |-> <<>>]

TransportInit ==
    /\ impl \in {"web", "mock"}
    /\ status = "disconnected"
    /\ port = "null"
    /\ keepReading = FALSE
    /\ loop = "none"
    /\ buffer = <<>>
    /\ timers = <<>>
    /\ cpc = "idle"
    /\ dpc = "idle"
    /\ dres = "none"
    /\ rd = NoRead
    /\ wr = "none"

\* AT32Protocol: no operation called yet
ProtocolInit ==
    /\ op = NoOp
    /\ ret = NoRet
    /\ wire = <<>>

\* App: the initial values of useState and useRef
AppInit ==
    /\ appStatus = "disconnected"
    /\ useMock = FALSE
    /\ serialRef = 0
    /\ protocolRef = 0
    /\ file = <<>>
    /\ serials = <<>>
    /\ tasks = <<>>

\* FileParsers: no parser called yet
\* FileParsers: no parser called yet;
\* fn is the parser, arg its argument, desc what the argument was built from
NoInput == [fn |-> "none", arg |-> <<>>, desc |-> <<>>]
NoParse == [st |-> "none", err |-> "", segments |-> <<>>]

ParserInit ==
    /\ parseIn = NoInput
    /\ parseOut = NoParse

\* no programming in progress
NoJob == [h |-> "none", st |-> "idle", data |-> <<>>, i |-> 0, calls |-> <<>>, got |-> <<>>]

\* the device expects a command and stores nothing
DeviceInit ==
    /\ job = NoJob
    /\ dev = [st |-> "cmd", addr |-> <<0, 0>>]
    /\ flash = [a \in {} |-> 0]

Init ==
    /\ TransportInit
    /\ ingested = <<>>
    /\ consumed = <<>>
    /\ stale = 0
    /\ ProtocolInit
    /\ AppInit
    /\ ParserInit
    /\ DeviceInit

-----------------------------------------------------------------------------
(* WebSerialInterface.connect *)

\* connect() up to `await navigator.serial.requestPort()`
WebConnectCall ==
    /\ impl = "web" /\ cpc = "idle" /\ dpc = "idle" /\ port # "open"
    /\ status' = "connecting"
    /\ cpc' = "request"
    /\ UNCHANGED <<impl, port, keepReading, loop, buffer, timers, dpc, dres, rd, wr>>

\* requestPort() settles: the user picked a port (ok) or dismissed the chooser
WebConnectRequest(ok) ==
    /\ impl = "web" /\ cpc = "request"
    /\ IF ok
       THEN /\ port' = "closed"
            /\ cpc' = "open"
            /\ UNCHANGED status
       ELSE /\ status' = "error"
            /\ cpc' = "idle"
            /\ UNCHANGED port
    /\ UNCHANGED <<impl, keepReading, loop, buffer, timers, dpc, dres, rd, wr>>

\* port.open() settles; on success readLoop() runs to its first reader.read()
WebConnectOpen(ok) ==
    /\ impl = "web" /\ cpc = "open"
    /\ IF ok
       THEN /\ port' = "open"
            /\ keepReading' = TRUE
            /\ loop' = "reading"
            /\ status' = "connected"
       ELSE /\ status' = "error"
            /\ UNCHANGED <<port, keepReading, loop>>
    /\ cpc' = "idle"
    /\ UNCHANGED <<impl, buffer, timers, dpc, dres, rd, wr>>

(* MockSerialInterface.connect / disconnect *)

MockConnect ==
    /\ impl = "mock"
    /\ status' = "connected"
    /\ UNCHANGED <<impl, port, keepReading, loop, buffer, timers, cpc, dpc, dres, rd, wr>>

MockDisconnect ==
    /\ impl = "mock"
    /\ status' = "disconnected"
    /\ dres' = "ok"
    /\ UNCHANGED <<impl, port, keepReading, loop, buffer, timers, cpc, dpc, rd, wr>>

-----------------------------------------------------------------------------
(* WebSerialInterface.disconnect *)

\* the tail of disconnect(): port.close() of a port that is open resolves, of a
\* port that was never opened rejects and disconnect() throws before `port = null`
WebDisconnectFinish ==
    IF port = "closed"
    THEN /\ dres' = "error"
         /\ UNCHANGED <<port, status>>
    ELSE /\ port' = "null"
         /\ status' = "disconnected"
         /\ dres' = "ok"

\* disconnect() up to its first await
WebDisconnectCall ==
    /\ impl = "web" /\ dpc = "idle" /\ cpc = "idle"
    /\ keepReading' = FALSE
    /\ IF loop = "reading"
       THEN \* reader.cancel(): the pending reader.read() resolves with done
            /\ loop' = "cancelled"
            /\ dpc' = "cancel"
            /\ UNCHANGED <<port, status, dres>>
       ELSE IF loop # "none"
       THEN /\ dpc' = "join"
            /\ UNCHANGED <<loop, port, status, dres>>
       ELSE IF port # "null"
       THEN /\ dpc' = "close"
            /\ UNCHANGED <<loop, port, status, dres>>
       ELSE /\ WebDisconnectFinish
            /\ UNCHANGED <<loop, dpc>>
    /\ UNCHANGED <<impl, buffer, timers, cpc, rd, wr>>

\* `await this.reader.cancel()` resumes
WebDisconnectCancelled ==
    /\ impl = "web" /\ dpc = "cancel"
    /\ dpc' = "join"
    /\ UNCHANGED <<impl, status, port, keepReading, loop, buffer, timers, cpc, dres, rd, wr>>

\* `await this.readingPromise.catch(...)` resumes once readLoop() has returned
WebDisconnectJoined ==
    /\ impl = "web" /\ dpc = "join" /\ loop = "done"
    /\ dpc' = "close"
    /\ UNCHANGED <<impl, status, port, keepReading, loop, buffer, timers, cpc, dres, rd, wr>>

\* `await this.port.close()` settles
WebDisconnectClose ==
    /\ impl = "web" /\ dpc = "close"
    /\ WebDisconnectFinish
    /\ dpc' = "idle"
    /\ UNCHANGED <<impl, keepReading, loop, buffer, timers, cpc, rd, wr>>

-----------------------------------------------------------------------------
(* WebSerialInterface.readLoop *)

\* reader.read() resolves with a chunk of bytes, each pushed onto the buffer
ReadLoopChunk(value) ==
    /\ impl = "web" /\ loop = "reading"
    /\ buffer' = buffer \o value
    /\ UNCHANGED <<impl, status, port, keepReading, loop, timers, cpc, dpc, dres, rd, wr>>

\* reader.read() resolved with done after cancel(): break, finally releaseLock
ReadLoopExit ==
    /\ impl = "web" /\ loop = "cancelled"
    /\ loop' = "done"
    /\ UNCHANGED <<impl, status, port, keepReading, buffer, timers, cpc, dpc, dres, rd, wr>>

\* reader.read() rejects (the device is lost): catch, finally releaseLock
ReadLoopError ==
    /\ impl = "web" /\ loop = "reading"
    /\ loop' = "done"
    /\ UNCHANGED <<impl, status, port, keepReading, buffer, timers, cpc, dpc, dres, rd, wr>>

-----------------------------------------------------------------------------
(* write *)

\* WebSerialInterface.write: the writer is taken and released within the call
WebWrite(data) ==
    /\ impl = "web"
    /\ wr' = IF port # "open" THEN "error" ELSE "ok"
    /\ UNCHANGED <<impl, status, port, keepReading, loop, buffer, timers, cpc, dpc, dres>>

\* MockSerialInterface.processCommand: the bytes pushed at once and the pushes
\* left to setTimeout
MockProcessCommand(data) ==
    IF Len(data) = 0
    THEN [now |-> <<>>, later |-> <<>>]
    ELSE IF At(data, 0) = 127
    THEN [now |-> <<121>>, later |-> <<>>]
    ELSE IF At(data, 0) = 2 /\ At(data, 1) = 253
    THEN [now |-> <<121>>,
          later |-> <<[rem |-> MockDelayMs, bytes |-> <<4, 65, 84, 51, 50, 1, 121>>]>>]
    ELSE IF Len(data) = 2 /\ Xor(At(data, 0), At(data, 1)) = 255
    THEN [now |-> <<121>>, later |-> <<>>]
    ELSE [now |-> <<>>, later |-> <<>>]

\* MockSerialInterface.write
MockWrite(data) ==
    /\ impl = "mock"
    /\ buffer' = buffer \o MockProcessCommand(data).now
    /\ timers' = timers \o MockProcessCommand(data).later
    /\ wr' = "ok"
    /\ UNCHANGED <<impl, status, port, keepReading, loop, cpc, dpc, dres>>

\* a setTimeout push of the mock runs: when it is due, or at any time while no
\* caller is waiting (any amount of time passes between two calls)
MockTimerFire ==
    /\ impl = "mock" /\ timers # <<>>
    /\ IF Head(timers).rem = 0
       THEN TRUE
       ELSE rd.st \notin {"poll", "sleep"} /\ op.name = "none"
    /\ buffer' = buffer \o Head(timers).bytes
    /\ timers' = Tail(timers)
    /\ UNCHANGED <<impl, status, port, keepReading, loop, cpc, dpc, dres, rd, wr>>

-----------------------------------------------------------------------------
(* read *)

\* read(count, timeoutMs) up to its first test of the loop condition
StartRead(count, timeoutMs) ==
    [st |-> "poll", count |-> count, timeoutMs |-> timeoutMs, elapsed |-> 0,
     last |-> 0, polls |-> 0, data |-> <<>>, got |-> 0]

\* read(count) returns `data`: its frame is gone, the caller holds the bytes
ReadReturn(count, data) == [NoRead EXCEPT !.st = "ok", !.count = count, !.data = data]

\* read() throws: its frame is gone, the caller holds the error; the timeout
\* error of WebSerialInterface names count and the bytes buffered
ReadThrow(kind, count, got) == [NoRead EXCEPT !.st = kind, !.count = count, !.got = got]

\* mutant: the bytes returned stay in the buffer
ReadTake_Keeps(buf, count) == [data |-> Slice(buf, 0, count), rest |-> buf]

\* the return of read(): the first count bytes, and the buffer left
ReadTake(buf, count) == [data |-> Slice(buf, 0, count), rest |-> SliceFrom(buf, count)]

\* mutant: no test of keepReading
WebReadOutcome_NoDisconnect(buf, r, kr) ==
    IF Len(buf) >= r.count THEN "ok"
    ELSE IF r.elapsed > r.timeoutMs THEN "timeout"
    ELSE "sleep"

\* mutant: keepReading is tested before the length of the buffer
WebReadOutcome_DisconnectFirst(buf, r, kr) ==
    IF ~kr THEN "disconnected"
    ELSE IF Len(buf) >= r.count THEN "ok"
    ELSE IF r.elapsed > r.timeoutMs THEN "timeout"
    ELSE "sleep"

\* WebSerialInterface.read: what one test of the while loop decides
WebReadOutcome(buf, r, kr) ==
    IF Len(buf) >= r.count THEN "ok"
    ELSE IF ~kr THEN "disconnected"
    ELSE IF r.elapsed > r.timeoutMs THEN "timeout"
    ELSE "sleep"

\* mutant: the timeout compared with >=
MockReadOutcome_Early(buf, r) ==
    IF Len(buf) >= r.count THEN "ok"
    ELSE IF r.elapsed >= r.timeoutMs THEN "timeout"
    ELSE "sleep"

\* MockSerialInterface.read: what one test of the while loop decides
MockReadOutcome(buf, r) ==
    IF Len(buf) >= r.count THEN "ok"
    ELSE IF r.elapsed > r.timeoutMs THEN "timeout"
    ELSE "sleep"

\* WebSerialInterface.read: one pass of the while loop, or the return
WebReadPoll ==
    /\ impl = "web" /\ rd.st = "poll"
    /\ LET out == WebReadOutcome(buffer, rd, keepReading)
       IN  /\ rd' = CASE out = "ok" -> ReadReturn(rd.count, ReadTake(buffer, rd.count).data)
                      [] out = "disconnected" -> ReadThrow("disconnected", 0, 0)
                      [] out = "timeout" -> ReadThrow("timeout", rd.count, Len(buffer))
                      [] out = "sleep" -> [rd EXCEPT !.st = "sleep"]
           /\ buffer' = IF out = "ok" THEN ReadTake(buffer, rd.count).rest ELSE buffer
    /\ UNCHANGED <<impl, status, port, keepReading, loop, timers, cpc, dpc, dres, wr>>

\* MockSerialInterface.read: one pass of the while loop, or the return; a push
\* that is due runs before the wake-up of the poll
MockReadPoll ==
    /\ impl = "mock" /\ rd.st = "poll"
    /\ IF timers = <<>> THEN TRUE ELSE Head(timers).rem > 0
    /\ LET out == MockReadOutcome(buffer, rd)
       IN  /\ rd' = CASE out = "ok" -> ReadReturn(rd.count, ReadTake(buffer, rd.count).data)
                      [] out = "timeout" -> ReadThrow("timeout", 0, 0)
                      [] out = "sleep" -> [rd EXCEPT !.st = "sleep"]
           /\ buffer' = IF out = "ok" THEN ReadTake(buffer, rd.count).rest ELSE buffer
    /\ UNCHANGED <<impl, status, port, keepReading, loop, timers, cpc, dpc, dres, wr>>

ReadPoll == WebReadPoll \/ MockReadPoll

\* the lengths a sleep of the poll may take: setTimeout(r, 10) waits 10 ms or more
SleepMs == {d \in {PollMs, LateMs} : d = PollMs => rd.polls < MaxPolls}

Elapse(t, d) == [t EXCEPT !.rem = IF t.rem > d THEN t.rem - d ELSE 0]

\* `await new Promise(r => setTimeout(r, 10))` resumes after d ms
ReadWake(d) ==
    /\ rd.st = "sleep"
    /\ rd' = [rd EXCEPT !.st = "poll", !.elapsed = rd.elapsed + d, !.last = d,
                        !.polls = IF d = PollMs THEN rd.polls + 1 ELSE rd.polls]
    /\ timers' = [i \in 1..Len(timers) |-> Elapse(timers[i], d)]
    /\ UNCHANGED <<impl, status, port, keepReading, loop, buffer, cpc, dpc, dres, wr>>

-----------------------------------------------------------------------------
(* flush: WebSerialInterface.flush and MockSerialInterface.flush *)

\* mutant: flush also stops the background read
WebFlush_StopsReading ==
    /\ impl = "web"
    /\ buffer' = <<>>
    /\ keepReading' = FALSE
    /\ UNCHANGED <<impl, status, port, loop, timers, cpc, dpc, dres, wr>>

WebFlush ==
    /\ impl = "web"
    /\ buffer' = <<>>
    /\ UNCHANGED <<impl, status, port, keepReading, loop, timers, cpc, dpc, dres, wr>>

MockFlush ==
    /\ impl = "mock"
    /\ buffer' = <<>>
    /\ UNCHANGED <<impl, status, port, keepReading, loop, timers, cpc, dpc, dres, wr>>

Flush == WebFlush \/ MockFlush

\* a read() is inside its while loop
Waiting == rd.st \in {"poll", "sleep"}

\* the channel of the transport is open
ChannelOpen == IF impl = "web" THEN port = "open" ELSE status = "connected"

-----------------------------------------------------------------------------
(* Spec: a caller that uses one transport directly, the device and the user *)

\* the history of an action that only appends to the buffer
Appended == SliceFrom(buffer', Len(buffer))

RECURSIVE PendingBytes(_)
PendingBytes(ts) == IF ts = <<>> THEN 0 ELSE Len(Head(ts).bytes) + PendingBytes(Tail(ts))

\* what the device sends next: a numbered stream, in chunks of one or two bytes
StreamChunks == LET k == Len(ingested) IN {<<k + 1>>, <<k + 1, k + 2>>}

TimeoutSamples == {0, 25}

FrameSamples == {<<>>, <<127>>, <<2, 253>>, <<17, 238>>, <<1, 2, 3>>, <<2, 253, 0>>}

TConnect ==
    /\ \/ WebConnectCall
       \/ \E ok \in BOOLEAN : WebConnectRequest(ok)
       \/ \E ok \in BOOLEAN : WebConnectOpen(ok)
       \/ MockConnect
    /\ UNCHANGED <<hvars, pvars>>
    /\ UNCHANGED <<avars, fvars, dvars>>

TDisconnect ==
    /\ \/ WebDisconnectCall
       \/ WebDisconnectCancelled
       \/ WebDisconnectJoined
       \/ WebDisconnectClose
       \/ MockDisconnect
    /\ UNCHANGED <<hvars, pvars>>
    /\ UNCHANGED <<avars, fvars, dvars>>

TReadLoop ==
    /\ \/ ReadLoopExit
       \/ ReadLoopError
    /\ UNCHANGED <<hvars, pvars>>
    /\ UNCHANGED <<avars, fvars, dvars>>

TDeviceSend ==
    /\ \E value \in StreamChunks :
          /\ Len(ingested) + Len(value) <= MaxStream
          /\ ReadLoopChunk(value)
    /\ ingested' = ingested \o Appended
    /\ UNCHANGED <<consumed, stale, pvars>>
    /\ UNCHANGED <<avars, fvars, dvars>>

TTimerFire ==
    /\ MockTimerFire
    /\ ingested' = ingested \o Appended
    /\ UNCHANGED <<consumed, stale, pvars>>
    /\ UNCHANGED <<avars, fvars, dvars>>

TWrite ==
    /\ \E data \in FrameSamples :
          \/ WebWrite(data)
          \/ /\ MockWrite(data)
             /\ Len(ingested) + Len(Appended) + PendingBytes(timers') <= MaxIngest
    /\ ingested' = ingested \o Appended
    /\ UNCHANGED <<rd, consumed, stale, pvars>>
    /\ UNCHANGED <<avars, fvars, dvars>>

TRead ==
    /\ rd.st \notin {"poll", "sleep"}
    /\ \E count \in 0..MaxCount, timeoutMs \in TimeoutSamples :
          rd' = StartRead(count, timeoutMs)
    /\ UNCHANGED <<impl, status, port, keepReading, loop, buffer, timers, cpc, dpc,
                   dres, wr, hvars, pvars>>
    /\ UNCHANGED <<avars, fvars, dvars>>

TReadPoll ==
    /\ ReadPoll
    /\ consumed' = consumed \o rd'.data
    /\ UNCHANGED <<ingested, stale, pvars>>
    /\ UNCHANGED <<avars, fvars, dvars>>

TReadWake ==
    /\ \E d \in SleepMs : ReadWake(d)
    /\ UNCHANGED <<hvars, pvars>>
    /\ UNCHANGED <<avars, fvars, dvars>>

TFlush ==
    /\ Flush
    /\ ingested' = <<>>
    /\ consumed' = <<>>
    /\ stale' = stale
    /\ UNCHANGED <<rd, pvars>>
    /\ UNCHANGED <<avars, fvars, dvars>>

Next ==
    \/ TConnect
    \/ TDisconnect
    \/ TReadLoop
    \/ TDeviceSend
    \/ TTimerFire
    \/ TWrite
    \/ TRead
    \/ TReadPoll
    \/ TReadWake
    \/ TFlush

Spec == Init /\ [][Next]_vars

\* the event loop runs every timer and every settled promise: a sleeping read
\* wakes, a woken read polls, a due push runs, readLoop and disconnect resume
Fairness ==
    /\ WF_vars(TReadPoll)
    /\ WF_vars(TReadWake)
    /\ WF_vars(TTimerFire)
    /\ WF_vars(TReadLoop /\ loop = "cancelled")
    /\ WF_vars(TDisconnect /\ dpc # "idle")

FairSpec == Spec /\ Fairness

-----------------------------------------------------------------------------
(* AT32Protocol: opcodes and frames *)

CMD == [GET_COMMANDS |-> 0, GET_VERSION |-> 1, GET_ID |-> 2, READ_MEMORY |-> 17,
        GO |-> 33, WRITE_MEMORY |-> 49, ERASE |-> 68, FIRMWARE_CRC |-> 172]

\* sendCommand: const frame = new Uint8Array([cmd, cmd ^ 0xFF])
SendCommandFrame(cmd) == Uint8Array(<<cmd, Xor(cmd, 255)>>)

\* mutant: the address bytes least-significant first
SendAddressFrame_LowFirst(addr) ==
    LET b3 == Narrow(WBit("and", Sar(addr, 24), Wide(255)))
        b2 == Narrow(WBit("and", Sar(addr, 16), Wide(255)))
        b1 == Narrow(WBit("and", Sar(addr, 8), Wide(255)))
        b0 == Narrow(WBit("and", addr, Wide(255)))
        checksum == Xor(Xor(Xor(b3, b2), b1), b0)
    IN  Uint8Array(<<b0, b1, b2, b3, checksum>>)

\* sendAddress: b3..b0 and the checksum, as one Uint8Array
SendAddressFrame(addr) ==
    LET b3 == Narrow(WBit("and", Sar(addr, 24), Wide(255)))
        b2 == Narrow(WBit("and", Sar(addr, 16), Wide(255)))
        b1 == Narrow(WBit("and", Sar(addr, 8), Wide(255)))
        b0 == Narrow(WBit("and", addr, Wide(255)))
        checksum == Xor(Xor(Xor(b3, b2), b1), b0)
    IN  Uint8Array(<<b3, b2, b1, b0, checksum>>)

\* writeMemory: the for loop from checksum = n; fold[c, i, j] is the checksum
\* after the iterations i..j-1 of `checksum ^= data[i]` run in order from c
WriteChecksum(n, data) ==
    LET fold[checksum \in 0..255, i \in 0..Len(data), j \in 0..Len(data)] ==
            IF j <= i THEN checksum
            ELSE IF j = i + 1 THEN Xor(checksum, At(data, i))
            ELSE fold[fold[checksum, i, (i + j) \div 2], (i + j) \div 2, j]
    IN  fold[n, 0, Len(data)]

\* mutant: the checksum starts from 0, not from n
WriteMemoryFrame_NoLength(data) ==
    LET n == Len(data) - 1
    IN  <<U8(n)>> \o data \o <<U8(WriteChecksum(0, data))>>

\* writeMemory: frame[0] = n, frame[i + 1] = data[i], frame[data.length + 1] = checksum
WriteMemoryFrame(data) ==
    LET n == Len(data) - 1
    IN  <<U8(n)>> \o data \o <<U8(WriteChecksum(n, data))>>

\* mutant: the length itself where the code sends length - 1
ReadLengthFrame_Length(length) == LET n == length IN Uint8Array(<<n, Xor(255, n)>>)

\* readMemory: new Uint8Array([n, 0xFF ^ n]) with n = length - 1
ReadLengthFrame(length) == LET n == length - 1 IN Uint8Array(<<n, Xor(255, n)>>)

\* eraseAll: new Uint8Array([code1, code2, code1 ^ code2])
EraseFrame == Uint8Array(<<255, 255, Xor(255, 255)>>)

\* firmwareCRC: new Uint8Array([msb, lsb, msb ^ lsb ^ 0xFF]) with n = sectorCount - 1
SectorCountFrame(sectorCount) ==
    LET n == Wide(sectorCount - 1)
        msb == Narrow(WBit("and", Sar(n, 8), Wide(255)))
        lsb == Narrow(WBit("and", n, Wide(255)))
    IN  Uint8Array(<<msb, lsb, Xor(Xor(msb, lsb), 255)>>)

\* (x[a] << 24) | (x[b] << 16) | (x[c] << 8) | x[d], then >>> 0
Assemble(x, a, b, c, d) ==
    Ushr0(WBit("or", WBit("or", WBit("or", Shl(Wide(Num(At(x, a))), 24),
                                          Shl(Wide(Num(At(x, b))), 16)),
                               Shl(Wide(Num(At(x, c))), 8)),
                    Wide(Num(At(x, d)))))

\* mutant: the product id taken in the order of the bytes
GetIDResult_InOrder(idBytes) ==
    [pid |-> Assemble(idBytes, 0, 1, 2, 3), projectID |-> At(idBytes, 4)]

\* mutant: no `>>> 0`
GetIDResult_Signed(idBytes) ==
    [pid |-> ToInt32(Assemble(idBytes, 2, 3, 0, 1)), projectID |-> At(idBytes, 4)]

\* getID: the object returned
GetIDResult(idBytes) == [pid |-> Assemble(idBytes, 2, 3, 0, 1), projectID |-> At(idBytes, 4)]

\* mutant: no `>>> 0`
CrcResult_Signed(crcBytes) == ToInt32(Assemble(crcBytes, 0, 1, 2, 3))

\* firmwareCRC: the number returned
CrcResult(crcBytes) == Assemble(crcBytes, 0, 1, 2, 3)

-----------------------------------------------------------------------------
(* AT32Protocol: the operations, each as the transport call it makes next *)

\* await serial.flush(), then go on at pc
CFlush(pc) == [k |-> "flush", pc |-> pc]
\* await serial.write(frame); await serial.read(count, timeoutMs), then go on at pc
CWrite(frame, count, timeoutMs, pc, loc) ==
    [k |-> "io", w |-> TRUE, frame |-> frame, count |-> count, timeoutMs |-> timeoutMs,
     pc |-> pc, loc |-> loc]
\* await serial.read(count, timeoutMs), then go on at pc
CRead(count, timeoutMs, pc, loc) ==
    [k |-> "io", w |-> FALSE, frame |-> <<>>, count |-> count, timeoutMs |-> timeoutMs,
     pc |-> pc, loc |-> loc]
CReturn(val) == [k |-> "ret", val |-> val]
CThrow(err, info) == [k |-> "throw", err |-> err, info |-> info]

\* sendCommand(cmd) up to its read
SendCommand(cmd) == CWrite(SendCommandFrame(cmd), 1, DefaultTimeoutMs, "cmd", <<>>)

\* sendAddress(addr) up to its read
SendAddress(addr) == CWrite(SendAddressFrame(addr), 1, DefaultTimeoutMs, "addr", <<>>)

\* readMemory: if (length <= 0 || length > 256)
InvalidReadLength(length) == length <= 0 \/ length > 256

\* writeMemory: if (data.length > 256 || data.length === 0)
InvalidWriteLength(data) == Len(data) > 256 \/ Len(data) = 0

\* mutant: a sector count of 0 passes
InvalidSectorCount_Zero(sectorCount) == sectorCount < 0 \/ sectorCount > 65536

\* firmwareCRC: if (sectorCount <= 0 || sectorCount > 0x10000)
InvalidSectorCount(sectorCount) == sectorCount <= 0 \/ sectorCount > 65536

\* an operation from its call to its first await
OpBegin(o) ==
    CASE o.name = "sync" -> CFlush("flushed")
      [] o.name = "getID" -> SendCommand(CMD.GET_ID)
      [] o.name = "getVersion" -> SendCommand(CMD.GET_VERSION)
      [] o.name = "readMemory" ->
            IF InvalidReadLength(o.arg)
            THEN CThrow("Invalid read length", <<>>)
            ELSE SendCommand(CMD.READ_MEMORY)
      [] o.name = "writeMemory" ->
            IF InvalidWriteLength(o.data)
            THEN CThrow("Invalid write length", <<>>)
            ELSE SendCommand(CMD.WRITE_MEMORY)
      [] o.name = "eraseAll" -> SendCommand(CMD.ERASE)
      [] o.name = "firmwareCRC" ->
            IF InvalidSectorCount(o.arg)
            THEN CThrow("Invalid sector count", <<>>)
            ELSE SendCommand(CMD.FIRMWARE_CRC)

\* the opcode an operation sends
OpCmd(name) ==
    CASE name = "getID" -> CMD.GET_ID
      [] name = "getVersion" -> CMD.GET_VERSION
      [] name = "readMemory" -> CMD.READ_MEMORY
      [] name = "writeMemory" -> CMD.WRITE_MEMORY
      [] name = "eraseAll" -> CMD.ERASE
      [] name = "firmwareCRC" -> CMD.FIRMWARE_CRC

\* mutant: no test for NACK
SyncNext_NoNack(o, resp) ==
    CASE o.pc = "flushed" -> CWrite(Uint8Array(<<127>>), 1, 1000, "resp", <<>>)
      [] o.pc = "resp" ->
            IF At(resp, 0) # ACK
            THEN CThrow("Sync failed", <<At(resp, 0)>>)
            ELSE CReturn(<<>>)

\* sync() from the await at o.pc on; resp is what the read returned
SyncNext(o, resp) ==
    CASE o.pc = "flushed" -> CWrite(Uint8Array(<<127>>), 1, 1000, "resp", <<>>)
      [] o.pc = "resp" ->
            IF At(resp, 0) # ACK
            THEN IF At(resp, 0) = NACK
                 THEN CThrow("Received NACK during sync", <<>>)
                 ELSE CThrow("Sync failed", <<At(resp, 0)>>)
            ELSE CReturn(<<>>)

\* getID() after sendCommand
GetIDNext(o, resp) ==
    CASE o.pc = "cmd" -> CRead(1, DefaultTimeoutMs, "len", <<>>)
      [] o.pc = "len" -> CRead(At(resp, 0) + 1, DefaultTimeoutMs, "id", <<>>)
      [] o.pc = "id" -> CRead(1, DefaultTimeoutMs, "ack", <<resp>>)
      [] o.pc = "ack" ->
            IF At(resp, 0) # ACK
            THEN CThrow("GetID: Missing final ACK", <<>>)
            ELSE CReturn(GetIDResult(o.loc[1]))

\* getVersion() after sendCommand
GetVersionNext(o, resp) ==
    CASE o.pc = "cmd" -> CRead(1, DefaultTimeoutMs, "ver", <<>>)
      [] o.pc = "ver" -> CRead(1, DefaultTimeoutMs, "opt1", <<resp>>)
      [] o.pc = "opt1" -> CRead(1, DefaultTimeoutMs, "opt2", o.loc \o <<resp>>)
      [] o.pc = "opt2" -> CRead(1, DefaultTimeoutMs, "ack", o.loc \o <<resp>>)
      [] o.pc = "ack" ->
            IF At(resp, 0) # ACK
            THEN CThrow("GetVersion: Missing final ACK", <<>>)
            ELSE CReturn([version |-> At(o.loc[1], 0),
                          optionBytes |-> <<At(o.loc[2], 0), At(o.loc[3], 0)>>])

\* readMemory() after sendCommand
ReadMemoryNext(o, resp) ==
    CASE o.pc = "cmd" -> SendAddress(o.addr)
      [] o.pc = "addr" ->
            IF At(resp, 0) # ACK
            THEN CThrow("Address NACK", <<>>)
            ELSE CWrite(ReadLengthFrame(o.arg), 1, DefaultTimeoutMs, "len", <<>>)
      [] o.pc = "len" ->
            IF At(resp, 0) # ACK
            THEN CThrow("ReadMemory: Length NACK", <<>>)
            ELSE CRead(o.arg, DefaultTimeoutMs, "data", <<>>)
      [] o.pc = "data" -> CReturn(resp)

\* writeMemory() after sendCommand
WriteMemoryNext(o, resp) ==
    CASE o.pc = "cmd" -> SendAddress(o.addr)
      [] o.pc = "addr" ->
            IF At(resp, 0) # ACK
            THEN CThrow("Address NACK", <<>>)
            ELSE CWrite(WriteMemoryFrame(o.data), 1, DefaultTimeoutMs, "data", <<>>)
      [] o.pc = "data" ->
            IF At(resp, 0) # ACK
            THEN CThrow("WriteMemory: NACK during data write", <<>>)
            ELSE CReturn(<<>>)

\* eraseAll() after sendCommand
EraseAllNext(o, resp) ==
    CASE o.pc = "cmd" -> CWrite(EraseFrame, 1, 10000, "ack", <<>>)
      [] o.pc = "ack" ->
            IF At(resp, 0) # ACK
            THEN CThrow("Erase All failed", <<>>)
            ELSE CReturn(<<>>)

\* firmwareCRC() after sendCommand
FirmwareCRCNext(o, resp) ==
    CASE o.pc = "cmd" -> SendAddress(o.addr)
      [] o.pc = "addr" ->
            IF At(resp, 0) # ACK
            THEN CThrow("Address NACK", <<>>)
            ELSE CWrite(SectorCountFrame(o.arg), 1, DefaultTimeoutMs, "count", <<>>)
      [] o.pc = "count" ->
            IF At(resp, 0) # ACK
            THEN CThrow("Firmware CRC: NACK during sector count", <<>>)
            ELSE CRead(4, 10000, "crc", <<>>)
      [] o.pc = "crc" -> CReturn(CrcResult(resp))

\* mutant: sendCommand without its test of the byte read
OpNext_NoCommandCheck(o, resp) ==
    CASE o.name = "sync" -> SyncNext(o, resp)
      [] o.name = "getID" -> GetIDNext(o, resp)
      [] o.name = "getVersion" -> GetVersionNext(o, resp)
      [] o.name = "readMemory" -> ReadMemoryNext(o, resp)
      [] o.name = "writeMemory" -> WriteMemoryNext(o, resp)
      [] o.name = "eraseAll" -> EraseAllNext(o, resp)
      [] o.name = "firmwareCRC" -> FirmwareCRCNext(o, resp)

\* the operation in flight from the await at o.pc on; resp is what its read returned
OpNext(o, resp) ==
    IF o.pc = "cmd" /\ At(resp, 0) # ACK
    THEN CThrow("Command failed", <<OpCmd(o.name), At(resp, 0)>>)
    ELSE CASE o.name = "sync" -> SyncNext(o, resp)
           [] o.name = "getID" -> GetIDNext(o, resp)
           [] o.name = "getVersion" -> GetVersionNext(o, resp)
           [] o.name = "readMemory" -> ReadMemoryNext(o, resp)
           [] o.name = "writeMemory" -> WriteMemoryNext(o, resp)
           [] o.name = "eraseAll" -> EraseAllNext(o, resp)
           [] o.name = "firmwareCRC" -> FirmwareCRCNext(o, resp)

-----------------------------------------------------------------------------
(* AT32Protocol: one operation at a time over the transport *)

\* an entry of the log of an operation: its call ("call", the arguments), a
\* flush ("f"), a write ("w", the frame), a read that returned ("r", the bytes)
Event(d, x) == [d |-> d, x |-> x]

\* the operation o makes the transport call c; w is the log of the operation
OpRun(o, c, w) ==
    CASE c.k = "flush" ->
            /\ Flush
            /\ op' = [o EXCEPT !.pc = c.pc]
            /\ rd' = NoRead
            /\ ret' = NoRet
            /\ wire' = w \o <<Event("f", <<>>)>>
      [] c.k = "io" ->
            /\ IF c.w
               THEN WebWrite(c.frame) \/ MockWrite(c.frame)
               ELSE UNCHANGED <<impl, status, port, keepReading, loop, buffer, timers,
                                cpc, dpc, dres, wr>>
            /\ LET failed == c.w /\ wr' = "error"
               IN  /\ op' = IF failed THEN NoOp ELSE [o EXCEPT !.pc = c.pc, !.loc = c.loc]
                   /\ rd' = IF failed THEN NoRead ELSE StartRead(c.count, c.timeoutMs)
                   /\ ret' = IF failed
                             THEN [st |-> "error", err |-> "Port not open", val |-> <<>>]
                             ELSE NoRet
                   /\ wire' = IF c.w /\ ~failed THEN w \o <<Event("w", c.frame)>> ELSE w
      [] c.k = "ret" ->
            /\ op' = NoOp
            /\ rd' = NoRead
            /\ ret' = [st |-> "ok", err |-> "", val |-> c.val]
            /\ wire' = w
            /\ UNCHANGED <<impl, status, port, keepReading, loop, buffer, timers,
                           cpc, dpc, dres, wr>>
      [] c.k = "throw" ->
            /\ op' = NoOp
            /\ rd' = NoRead
            /\ ret' = [st |-> "error", err |-> c.err, val |-> c.info]
            /\ wire' = w
            /\ UNCHANGED <<impl, status, port, keepReading, loop, buffer, timers,
                           cpc, dpc, dres, wr>>

\* a call of an operation, up to its first await
OpCall(o) ==
    /\ op.name = "none"
    /\ OpRun(o, OpBegin(o), <<Event("call", o)>>)

\* the await of the operation in flight resolves and it runs to its next await
OpResume ==
    /\ op.name # "none"
    /\ IF op.pc = "flushed"
       THEN OpRun(op, OpNext(op, <<>>), wire)
       ELSE /\ rd.st = "ok"
            /\ OpRun(op, OpNext(op, rd.data), wire \o <<Event("r", rd.data)>>)

\* the read of the operation in flight throws: the operation throws the same
OpFail ==
    /\ op.name # "none"
    /\ rd.st \in {"timeout", "disconnected"}
    /\ op' = NoOp
    /\ rd' = NoRead
    /\ ret' = [st |-> "error", err |-> rd.st, val |-> <<>>]
    /\ UNCHANGED <<impl, status, port, keepReading, loop, buffer, timers, cpc, dpc,
                   dres, wr, wire>>

-----------------------------------------------------------------------------
(* ProtoSpec: a caller that runs protocol operations, the device and the user *)

\* a data block of n bytes
Block(n) == [i \in 1..n |-> (i * 7 + 3) % 256]

\* 0x08000000, 0x08000100, 0x12345678, 0x80000001, 0xFEDCBA98, 0xFFFFFFFF, 0
AddrSamples ==
    {<<2048, 0>>, <<2048, 256>>, <<4660, 22136>>, <<32768, 1>>, <<65244, 47768>>,
     <<65535, 65535>>, <<0, 0>>}

DataSamples == {<<>>, <<90>>, <<129, 126, 255>>, Block(256), Block(257)}

LengthSamples == {-1, 0, 1, 2, 256, 257}

SectorCountSamples == {0, 1, 513, 65536, 65537}

Call(name, addr, arg, data) ==
    [NoOp EXCEPT !.name = name, !.pc = "call", !.addr = addr, !.arg = arg, !.data = data]

OpCalls ==
    {Call(name, <<0, 0>>, 0, <<>>) : name \in {"sync", "getID", "getVersion", "eraseAll"}}
    \cup {Call("readMemory", addr, 1, <<>>) : addr \in AddrSamples}
    \cup {Call("readMemory", <<2048, 0>>, length, <<>>) : length \in LengthSamples}
    \cup {Call("writeMemory", <<2048, 0>>, 0, data) : data \in DataSamples}
    \cup {Call("writeMemory", <<65244, 47768>>, 0, <<90>>)}
    \cup {Call("firmwareCRC", <<2048, 0>>, sectorCount, <<>>) :
             sectorCount \in SectorCountSamples}

\* what the device may send: an answer byte, two at once, whole answers to
\* GET_ID (one with the top bit of the product id set, a short one, a long one,
\* one without the final ACK), the bytes the pending read still misses,
\* and a CRC with its top bit set
DeviceChunks ==
    {<<ACK>>, <<NACK>>, <<ACK, ACK>>, <<0>>,
     <<4, 65, 84, 51, 50, 1, 121>>, <<4, 17, 34, 200, 68, 9, 121>>,
     <<0, 7, 121>>, <<5, 1, 2, 3, 4, 5, 6, 121>>, <<4, 65, 84, 51, 50, 1, 31>>}
    \cup (IF Waiting /\ Len(buffer) < rd.count
          THEN {[i \in 1..(rd.count - Len(buffer)) |-> (i * 37 + 222) % 256]}
          ELSE {})
    \cup (IF Waiting /\ rd.count = 4 THEN {<<222, 173, 190, 239>>} ELSE {})

\* the device answers a read that waits on an empty buffer
PDeviceSend ==
    /\ Waiting /\ buffer = <<>>
    /\ \E value \in DeviceChunks : ReadLoopChunk(value)
    /\ UNCHANGED <<hvars, pvars>>
    /\ UNCHANGED <<avars, fvars, dvars>>

\* one session: connect() until it succeeds, no connect() after a disconnect()
PConnect ==
    /\ dres = "none"
    /\ TConnect

PTimerFire ==
    /\ MockTimerFire
    /\ UNCHANGED <<hvars, pvars>>
    /\ UNCHANGED <<avars, fvars, dvars>>

PReadPoll ==
    /\ ReadPoll
    /\ UNCHANGED <<hvars, pvars>>
    /\ UNCHANGED <<avars, fvars, dvars>>

PReadWake ==
    /\ ReadWake(LongMs)
    /\ UNCHANGED <<hvars, pvars>>
    /\ UNCHANGED <<avars, fvars, dvars>>

POpCall ==
    /\ \E o \in OpCalls : OpCall(o)
    /\ UNCHANGED hvars
    /\ UNCHANGED <<avars, fvars, dvars>>

POpResume ==
    /\ OpResume
    /\ UNCHANGED hvars
    /\ UNCHANGED <<avars, fvars, dvars>>

POpFail ==
    /\ OpFail
    /\ UNCHANGED hvars
    /\ UNCHANGED <<avars, fvars, dvars>>

ProtoNext ==
    \/ PConnect
    \/ TDisconnect
    \/ TReadLoop
    \/ PDeviceSend
    \/ PTimerFire
    \/ PReadPoll
    \/ PReadWake
    \/ POpCall
    \/ POpResume
    \/ POpFail

ProtoSpec == Init /\ [][ProtoNext]_vars

-----------------------------------------------------------------------------
(* App: the handlers of the application, over transports and protocol       *)
(* operations taken as calls that settle later, with success or an error    *)

\* s with its k-th element removed
RemoveAt(s, k) == SubSeq(s, 1, k - 1) \o SubSeq(s, k + 1, Len(s))

\* a call of a handler that waits at the await pc; ser is the transport it
\* uses, i the chunk and n the number of chunks of program()
Task(h, pc, ser, i, n) == [h |-> h, pc |-> pc, ser |-> ser, i |-> i, n |-> n]

\* the awaits on a protocol operation
OpPcs == {"sync", "getID", "getVersion", "eraseAll", "writeMemory"}

\* the sizes of the file the user may select
FileSizes == {0, 100, 256, 257}

\* Math.ceil(file.data.length / chunkSize) with chunkSize = 256
TotalChunks(length) == (length + 255) \div 256

\* the operation can resolve: the transport is connected and the device
\* answers; the mock device answers sync and getID in full and nothing else
OpMayResolve(pc, ser) ==
    IF serials[ser].mock
    THEN pc \in {"sync", "getID"}
    ELSE serials[ser].st = "connected"

\* the operation can reject: a timeout, a NACK or a disconnected port
OpMayReject(pc, ser) ==
    IF serials[ser].mock
    THEN pc \notin {"sync", "getID"}
    ELSE TRUE

\* the Connect button: shown unless connected or working, disabled while loading
ConnectEnabled == appStatus \in {"disconnected", "error"}

\* the Disconnect button: shown in place of Connect
DisconnectEnabled == appStatus \in {"connected", "working"}

\* the Erase button: in the panel shown when connected or working, disabled
\* while working
EraseEnabled == appStatus = "connected"

\* the Program button: disabled without a file or while working
ProgramEnabled == appStatus = "connected" /\ file # <<>>

\* connect() up to `await serial.connect(...)`
AppConnect ==
    /\ ConnectEnabled
    /\ Len(tasks) < MaxTasks /\ Len(serials) < MaxSerials
    /\ appStatus' = "connecting"
    /\ serials' = Append(serials, [mock |-> useMock, st |-> "new"])
    /\ tasks' = Append(tasks, Task("connect", "serialConnect", Len(serials) + 1, 0, 0))
    /\ UNCHANGED <<useMock, serialRef, protocolRef, file>>

\* the catch of connect(), run on the transports ss and the tasks left ts
AppConnectCatch(k, ss, ts) ==
    /\ appStatus' = "error"
    /\ IF serialRef # 0
       THEN /\ serials' = [ss EXCEPT ![serialRef].st = "disconnected"]
            /\ tasks' = [ts EXCEPT ![k].pc = "cleanup"]
       ELSE /\ serials' = ss
            /\ tasks' = RemoveAt(ts, k)
    /\ UNCHANGED <<useMock, serialRef, protocolRef, file>>

\* `await serial.connect(...)` settles; on success connect() goes on to sync()
AppSerialConnected(k, ok) ==
    /\ k \in DOMAIN tasks /\ tasks[k].pc = "serialConnect"
    /\ ok \/ ~serials[tasks[k].ser].mock
    /\ IF ok
       THEN /\ serials' = [serials EXCEPT ![tasks[k].ser].st = "connected"]
            /\ serialRef' = tasks[k].ser
            /\ protocolRef' = tasks[k].ser
            /\ tasks' = [tasks EXCEPT ![k].pc = "sync"]
            /\ UNCHANGED <<appStatus, useMock, file>>
       ELSE AppConnectCatch(k, [serials EXCEPT ![tasks[k].ser].st = "error"], tasks)

\* the `await serialRef.current.disconnect()` of the catch of connect() settles
AppConnectCleaned(k) ==
    /\ k \in DOMAIN tasks /\ tasks[k].pc = "cleanup"
    /\ serialRef' = 0
    /\ tasks' = RemoveAt(tasks, k)
    /\ UNCHANGED <<appStatus, useMock, protocolRef, file, serials>>

\* the handler of task k returns after setStatus(st)
AppReturn(k, st) ==
    /\ appStatus' = st
    /\ tasks' = RemoveAt(tasks, k)
    /\ UNCHANGED <<useMock, serialRef, protocolRef, file, serials>>

\* the protocol operation that task k awaits settles, and the handler runs to
\* its next await or to its end (with its catch and finally)
AppOpSettled(k, ok) ==
    /\ k \in DOMAIN tasks /\ tasks[k].pc \in OpPcs
    /\ IF ok THEN OpMayResolve(tasks[k].pc, tasks[k].ser)
             ELSE OpMayReject(tasks[k].pc, tasks[k].ser)
    /\ LET t == tasks[k]
       IN  CASE t.h = "connect" ->
                  IF ~ok THEN AppConnectCatch(k, serials, tasks)
                  ELSE IF t.pc = "getVersion" THEN AppReturn(k, "connected")
                  ELSE /\ tasks' = [tasks EXCEPT ![k].pc =
                                       IF t.pc = "sync" THEN "getID" ELSE "getVersion"]
                       /\ UNCHANGED <<appStatus, useMock, serialRef, protocolRef, file,
                                      serials>>
             [] t.h = "erase" -> AppReturn(k, "connected")
             [] t.h = "program" ->
                  IF ok /\ t.i + 1 < t.n /\ protocolRef # 0
                  THEN /\ tasks' = [tasks EXCEPT ![k].i = t.i + 1, ![k].ser = protocolRef]
                       /\ UNCHANGED <<appStatus, useMock, serialRef, protocolRef, file,
                                      serials>>
                  ELSE AppReturn(k, "connected")

\* the finally of disconnect()
AppDisconnectFinally ==
    /\ serialRef' = 0
    /\ protocolRef' = 0
    /\ appStatus' = "disconnected"

\* disconnect() up to `await serialRef.current.disconnect()`, or to its end
AppDisconnect ==
    /\ DisconnectEnabled
    /\ IF serialRef # 0
       THEN /\ Len(tasks) < MaxTasks
            /\ serials' = [serials EXCEPT ![serialRef].st = "disconnected"]
            /\ tasks' = Append(tasks, Task("disconnect", "serialDisconnect", serialRef, 0, 0))
            /\ UNCHANGED <<appStatus, serialRef, protocolRef>>
       ELSE /\ AppDisconnectFinally
            /\ UNCHANGED <<serials, tasks>>
    /\ UNCHANGED <<useMock, file>>

\* `await serialRef.current.disconnect()` settles
AppSerialDisconnected(k) ==
    /\ k \in DOMAIN tasks /\ tasks[k].pc = "serialDisconnect"
    /\ AppDisconnectFinally
    /\ tasks' = RemoveAt(tasks, k)
    /\ UNCHANGED <<useMock, file, serials>>

\* erase() up to `await protocolRef.current.eraseAll()`
AppErase ==
    /\ EraseEnabled
    /\ protocolRef # 0
    /\ Len(tasks) < MaxTasks
    /\ appStatus' = "working"
    /\ tasks' = Append(tasks, Task("erase", "eraseAll", protocolRef, 0, 0))
    /\ UNCHANGED <<useMock, serialRef, protocolRef, file, serials>>

\* program() up to its first `await protocolRef.current.writeMemory(...)`, or to
\* its end for a file of no bytes
AppProgram ==
    /\ ProgramEnabled
    /\ protocolRef # 0
    /\ IF TotalChunks(file[1]) = 0
       THEN /\ appStatus' = "connected"
            /\ UNCHANGED tasks
       ELSE /\ Len(tasks) < MaxTasks
            /\ appStatus' = "working"
            /\ tasks' = Append(tasks, Task("program", "writeMemory", protocolRef, 0,
                                           TotalChunks(file[1])))
    /\ UNCHANGED <<useMock, serialRef, protocolRef, file, serials>>

\* handleFileSelect: the input is in the panel shown when connected or working
AppFileSelect(length) ==
    /\ appStatus \in {"connected", "working"}
    /\ file' = <<length>>
    /\ UNCHANGED <<appStatus, useMock, serialRef, protocolRef, serials, tasks>>

\* the Mode button
AppToggleMock ==
    /\ useMock' = ~useMock
    /\ UNCHANGED <<appStatus, serialRef, protocolRef, file, serials, tasks>>

AConnect == AppConnect /\ UNCHANGED <<tvars, hvars, pvars, fvars, dvars>>

ASerialConnected ==
    /\ \E k \in 1..MaxTasks, ok \in BOOLEAN : AppSerialConnected(k, ok)
    /\ UNCHANGED <<tvars, hvars, pvars, fvars, dvars>>

AConnectCleaned ==
    /\ \E k \in 1..MaxTasks : AppConnectCleaned(k)
    /\ UNCHANGED <<tvars, hvars, pvars, fvars, dvars>>

AOpSettled ==
    /\ \E k \in 1..MaxTasks, ok \in BOOLEAN : AppOpSettled(k, ok)
    /\ UNCHANGED <<tvars, hvars, pvars, fvars, dvars>>

ADisconnect == AppDisconnect /\ UNCHANGED <<tvars, hvars, pvars, fvars, dvars>>

ASerialDisconnected ==
    /\ \E k \in 1..MaxTasks : AppSerialDisconnected(k)
    /\ UNCHANGED <<tvars, hvars, pvars, fvars, dvars>>

AErase == AppErase /\ UNCHANGED <<tvars, hvars, pvars, fvars, dvars>>

AProgram == AppProgram /\ UNCHANGED <<tvars, hvars, pvars, fvars, dvars>>

AFileSelect ==
    /\ \E length \in FileSizes : AppFileSelect(length)
    /\ UNCHANGED <<tvars, hvars, pvars, fvars, dvars>>

AToggleMock == AppToggleMock /\ UNCHANGED <<tvars, hvars, pvars, fvars, dvars>>

AppNext ==
    \/ AConnect
    \/ ASerialConnected
    \/ AConnectCleaned
    \/ AOpSettled
    \/ ADisconnect
    \/ ASerialDisconnected
    \/ AErase
    \/ AProgram
    \/ AFileSelect
    \/ AToggleMock

AppSpec == Init /\ [][AppNext]_vars

-----------------------------------------------------------------------------
(* FileParsers: a string is the sequence of its characters, an ArrayBuffer  *)
(* the sequence of its bytes                                                *)

\* JavaScript's NaN as a number and as a wide number, kept apart from every number
NaN == -2
WNaN == <<0, -1>>

WideOf(x) == IF x = NaN THEN WNaN ELSE Wide(x)

\* a + b and a === b of numbers that may be NaN
JsAdd(a, b) == IF a = WNaN \/ b = WNaN THEN WNaN ELSE WAdd(a, b)
StrictEq(a, b) == a # WNaN /\ b # WNaN /\ a = b

\* x << k of a number that may be NaN (ToInt32 of NaN is 0)
ShlNum(x, k) == IF x = NaN THEN Wide(0) ELSE Shl(Wide(x), k)

\* new Uint8Array(numbers) of numbers that may be NaN (stored as 0)
BytesOf(numbers) ==
    [i \in 1..Len(numbers) |-> IF numbers[i] = NaN THEN 0 ELSE U8(numbers[i])]

\* string.substring(a, b): NaN and negative arguments count as 0, larger ones
\* as the length, and the two are swapped when a > b
Substring(str, a, b) ==
    LET clamp(x) == IF x = NaN \/ x < 0 THEN 0 ELSE IF x > Len(str) THEN Len(str) ELSE x
        lo == IF clamp(a) <= clamp(b) THEN clamp(a) ELSE clamp(b)
        hi == IF clamp(a) <= clamp(b) THEN clamp(b) ELSE clamp(a)
    IN  SubSeq(str, lo + 1, hi)

HexDigits ==
    <<"0", "1", "2", "3", "4", "5", "6", "7", "8", "9", "A", "B", "C", "D", "E", "F">>

LowerHexDigits ==
    <<"0", "1", "2", "3", "4", "5", "6", "7", "8", "9", "a", "b", "c", "d", "e", "f">>

\* the value of a hexadecimal digit, NaN for any other character
DigitValue(c) ==
    IF \E d \in 1..16 : HexDigits[d] = c \/ LowerHexDigits[d] = c
    THEN (CHOOSE d \in 1..16 : HexDigits[d] = c \/ LowerHexDigits[d] = c) - 1
    ELSE NaN

\* parseInt(str, 16) of a string without white space, sign or 0x prefix: the
\* value of the longest prefix of hexadecimal digits, NaN when there is none
ParseInt16(str) ==
    LET digits == {k \in 0..Len(str) : \A j \in 1..k : DigitValue(str[j]) # NaN}
        longest == CHOOSE k \in digits : \A j \in digits : j <= k
        value[k \in 0..longest] ==
            IF k = 0 THEN 0 ELSE value[k - 1] * 16 + DigitValue(str[k])
    IN  IF longest = 0 THEN NaN ELSE value[longest]

\* text.split(/\r?\n/): the pieces between the line feeds, each without the
\* carriage return that ends it
SplitLines(text) ==
    LET feeds == {k \in 1..Len(text) : text[k] = "\n"}
        \* the position of the i-th line feed; 0 before the text, Len + 1 after it
        feed(i) == IF i = 0 THEN 0
                   ELSE IF i > Cardinality(feeds) THEN Len(text) + 1
                   ELSE CHOOSE k \in feeds : Cardinality({j \in feeds : j <= k}) = i
        last(i) == IF /\ feed(i) <= Len(text)
                      /\ feed(i) - 1 > feed(i - 1)
                      /\ text[feed(i) - 1] = "\r"
                   THEN feed(i) - 2
                   ELSE feed(i) - 1
    IN  [i \in 1..(Cardinality(feeds) + 1) |-> SubSeq(text, feed(i - 1) + 1, last(i))]

\* parseHex before its first line
HexStart ==
    [segments |-> <<>>, extendedAddress |-> Wide(0), currentData |-> <<>>,
     currentAddress |-> Wide(-1), done |-> FALSE]

\* commitSegment()
CommitSegment(h) ==
    IF Len(h.currentData) > 0 /\ ~StrictEq(h.currentAddress, Wide(-1))
    THEN [h EXCEPT !.segments = Append(h.segments, [address |-> h.currentAddress,
                                                    data |-> BytesOf(h.currentData)]),
                   !.currentData = <<>>,
                   !.currentAddress = Wide(-1)]
    ELSE h

\* one turn of the loop over the lines
HexLine(h, line) ==
    IF Substring(line, 0, 1) # <<":">> THEN h
    ELSE LET len == ParseInt16(Substring(line, 1, 3))
             addr == ParseInt16(Substring(line, 3, 7))
             type == ParseInt16(Substring(line, 7, 9))
             dataStr == Substring(line, 9, IF len = NaN THEN NaN ELSE 9 + len * 2)
         IN  CASE type = 0 ->
                    LET absoluteAddr == JsAdd(h.extendedAddress, WideOf(addr))
                        g == IF StrictEq(h.currentAddress, Wide(-1))
                             THEN [h EXCEPT !.currentAddress = absoluteAddr]
                             ELSE IF ~StrictEq(absoluteAddr,
                                               JsAdd(h.currentAddress,
                                                     Wide(Len(h.currentData))))
                             THEN [CommitSegment(h) EXCEPT !.currentAddress = absoluteAddr]
                             ELSE h
                        pushed == [i \in 1..(IF len = NaN THEN 0 ELSE len) |->
                                      ParseInt16(Substring(dataStr, (i - 1) * 2, i * 2))]
                    IN  [g EXCEPT !.currentData = g.currentData \o pushed]
               [] type = 2 ->
                    CommitSegment([h EXCEPT !.extendedAddress =
                                               ShlNum(ParseInt16(dataStr), 4)])
               [] type = 4 ->
                    CommitSegment([h EXCEPT !.extendedAddress =
                                               ShlNum(ParseInt16(dataStr), 16)])
               [] type = 1 -> [CommitSegment(h) EXCEPT !.done = TRUE]
               [] OTHER -> h

\* what a parser returned, and what it threw
Parsed(segments) == [st |-> "ok", err |-> "", segments |-> segments]
ParseError(err) == [st |-> "error", err |-> err, segments |-> <<>>]

\* FileParsers.parseHex(text)
parseHex(text) ==
    LET lines == SplitLines(text)
        run[k \in 0..Len(lines)] ==
            IF k = 0 THEN HexStart
            ELSE IF run[k - 1].done THEN run[k - 1]
            ELSE HexLine(run[k - 1], lines[k])
    IN  Parsed(CommitSegment(run[Len(lines)]).segments)

\* FileParsers.parseBin(buffer) with the default baseAddress 0x08000000
parseBin(buf) == Parsed(<<[address |-> <<2048, 0>>, data |-> buf]>>)

\* an offset (a wide number) at which `size` bytes lie inside the buffer
InBuffer(buf, offset, size) ==
    /\ offset # WNaN
    /\ offset[1] >= 0 /\ offset[1] < Pow2(15)
    /\ Narrow(offset) <= Len(buf) - size

\* view.getUint8(offset), view.getUint16(offset, littleEndian) and
\* view.getUint32(offset, littleEndian) of an offset inside the buffer
GetUint8(buf, offset) == buf[Narrow(offset) + 1]

GetUint16(buf, offset, littleEndian) ==
    LET b == SubSeq(buf, Narrow(offset) + 1, Narrow(offset) + 2)
    IN  IF littleEndian THEN b[2] * 256 + b[1] ELSE b[1] * 256 + b[2]

GetUint32(buf, offset, littleEndian) ==
    LET b == SubSeq(buf, Narrow(offset) + 1, Narrow(offset) + 4)
    IN  IF littleEndian THEN <<b[4] * 256 + b[3], b[2] * 256 + b[1]>>
                        ELSE <<b[1] * 256 + b[2], b[3] * 256 + b[4]>>

\* what the DataView and the Uint8Array constructor throw for a range outside
\* the buffer
RangeError == ParseError("RangeError")

\* mutant: the virtual address where the code takes the physical one
ElfProgramHeader_Vaddr(buf, offset, littleEndian, segments) ==
    IF ~InBuffer(buf, offset, 4) THEN RangeError
    ELSE IF GetUint32(buf, offset, littleEndian) # Wide(1) THEN Parsed(segments)
    ELSE IF ~InBuffer(buf, JsAdd(offset, Wide(16)), 4) THEN RangeError
    ELSE LET pOffset == GetUint32(buf, JsAdd(offset, Wide(4)), littleEndian)
             pPaddr == GetUint32(buf, JsAdd(offset, Wide(8)), littleEndian)
             pFilesz == GetUint32(buf, JsAdd(offset, Wide(16)), littleEndian)
         IN  IF pFilesz = Wide(0) THEN Parsed(segments)
             ELSE IF ~(InBuffer(buf, pOffset, 0) /\ InBuffer(buf, pFilesz, 0)
                       /\ Narrow(pFilesz) <= Len(buf) - Narrow(pOffset))
             THEN RangeError
             ELSE Parsed(Append(segments,
                                [address |-> pPaddr,
                                 data |-> SubSeq(buf, Narrow(pOffset) + 1,
                                                 Narrow(pOffset) + Narrow(pFilesz))]))

\* parseElf: one turn of the loop over the program headers, for the header at
\* offset; segments are the segments of the headers before
ElfProgramHeader(buf, offset, littleEndian, segments) ==
    IF ~InBuffer(buf, offset, 4) THEN RangeError
    ELSE IF GetUint32(buf, offset, littleEndian) # Wide(1) THEN Parsed(segments)
    ELSE IF ~InBuffer(buf, JsAdd(offset, Wide(16)), 4) THEN RangeError
    ELSE LET pOffset == GetUint32(buf, JsAdd(offset, Wide(4)), littleEndian)
             pPaddr == GetUint32(buf, JsAdd(offset, Wide(12)), littleEndian)
             pFilesz == GetUint32(buf, JsAdd(offset, Wide(16)), littleEndian)
         IN  IF pFilesz = Wide(0) THEN Parsed(segments)
             ELSE IF ~(InBuffer(buf, pOffset, 0) /\ InBuffer(buf, pFilesz, 0)
                       /\ Narrow(pFilesz) <= Len(buf) - Narrow(pOffset))
             THEN RangeError
             ELSE Parsed(Append(segments,
                                [address |-> pPaddr,
                                 data |-> SubSeq(buf, Narrow(pOffset) + 1,
                                                 Narrow(pOffset) + Narrow(pFilesz))]))

\* FileParsers.parseElf(buffer): the reads of one branch that throw the same are
\* tested together
parseElf(buf) ==
    IF ~InBuffer(buf, Wide(0), 4) THEN RangeError
    ELSE IF GetUint32(buf, Wide(0), FALSE) # <<32581, 19526>>
    THEN ParseError("Invalid ELF Magic")
    ELSE IF ~InBuffer(buf, Wide(4), 1) THEN RangeError
    ELSE IF ~InBuffer(buf, Wide(5), 1) THEN RangeError
    ELSE LET is64Bit == GetUint8(buf, Wide(4)) = 2
             littleEndian == GetUint8(buf, Wide(5)) = 1
         IN  IF is64Bit
             THEN ParseError("64-bit ELF not supported yet (Target is likely 32-bit MCU)")
             ELSE IF ~InBuffer(buf, Wide(44), 2) THEN RangeError
             ELSE LET phOff == GetUint32(buf, Wide(28), littleEndian)
                      phEntSize == GetUint16(buf, Wide(42), littleEndian)
                      phNum == GetUint16(buf, Wide(44), littleEndian)
                      run[i \in 0..phNum] ==
                          IF i = 0 THEN Parsed(<<>>)
                          ELSE IF run[i - 1].st = "error" THEN run[i - 1]
                          ELSE ElfProgramHeader(buf,
                                                JsAdd(phOff, Wide((i - 1) * phEntSize)),
                                                littleEndian, run[i - 1].segments)
                  IN  run[phNum]

-----------------------------------------------------------------------------
(* ParseSpec: a file is drawn and the parser of its format is applied to it *)

\* the sequences of at most n elements of S
RECURSIVE SeqsUpTo(_, _)
SeqsUpTo(S, n) ==
    IF n = 0 THEN {<<>>}
    ELSE LET shorter == SeqsUpTo(S, n - 1)
         IN  shorter \cup {Append(q, x) : q \in shorter, x \in S}

\* the concatenation of the sequences of a sequence
RECURSIVE Concat(_)
Concat(qs) == IF qs = <<>> THEN <<>> ELSE Head(qs) \o Concat(Tail(qs))

\* n in `width` hexadecimal digits
ToHex(n, width) ==
    [k \in 1..width |-> HexDigits[((n \div Pow2(4 * (width - k))) % 16) + 1]]

\* a record of an Intel HEX file and its line, :LLAAAATTDD...CC
HexRecord(type, addr, data) == [type |-> type, addr |-> addr, data |-> data]

RECURSIVE SumOf(_)
SumOf(q) == IF q = <<>> THEN 0 ELSE Head(q) + SumOf(Tail(q))

RecordLine(r) ==
    LET head == <<Len(r.data), r.addr \div 256, r.addr % 256, r.type>>
        checksum == (256 - (SumOf(head \o r.data) % 256)) % 256
    IN  <<":">> \o ToHex(Len(r.data), 2) \o ToHex(r.addr, 4) \o ToHex(r.type, 2)
        \o Concat([k \in 1..Len(r.data) |-> ToHex(r.data[k], 2)]) \o ToHex(checksum, 2)

\* data records at 0x0000 and 0x0010 of 16 bytes, at 0x0100 and 0xFFFF of one
\* byte; extended linear address records for 0x7FFF, 0x8000 and 0xFFFF; an
\* extended segment address record for 0x1000; the end of file record
HexRecords ==
    {HexRecord(0, 0, Block(16)), HexRecord(0, 16, [k \in 1..16 |-> 255 - k]),
     HexRecord(0, 256, <<165>>), HexRecord(0, 65535, <<90>>),
     HexRecord(4, 0, <<127, 255>>), HexRecord(4, 0, <<128, 0>>),
     HexRecord(4, 0, <<255, 255>>), HexRecord(2, 0, <<16, 0>>), HexRecord(1, 0, <<>>)}

HexText(recs, eol) == Concat([k \in 1..Len(recs) |-> RecordLine(recs[k]) \o eol])

\* the texts of at most MaxRecords records with lines that end in a line feed,
\* and the shorter ones with lines that end in carriage return and line feed
HexInputs ==
    {[fn |-> "parseHex", arg |-> HexText(recs, <<"\n">>), desc |-> recs] :
        recs \in SeqsUpTo(HexRecords, MaxRecords)}
    \cup {[fn |-> "parseHex", arg |-> HexText(recs, <<"\r", "\n">>), desc |-> recs] :
             recs \in SeqsUpTo(HexRecords, MaxRecords - 1)}

\* a program header of an ELF file: p_type, p_vaddr, p_paddr (wide) and p_filesz
ProgramHeader(type, vaddr, paddr, filesz) ==
    [type |-> type, vaddr |-> vaddr, paddr |-> paddr, filesz |-> filesz]

\* PT_LOAD of 64 bytes at 0x08000000, PT_LOAD of no bytes, PT_DYNAMIC of 8
\* bytes, PT_LOAD of 3 bytes at 0x80000010
ProgramHeaders ==
    {ProgramHeader(Wide(1), <<8192, 0>>, <<2048, 0>>, 64),
     ProgramHeader(Wide(1), <<8192, 64>>, <<2048, 256>>, 0),
     ProgramHeader(Wide(2), <<8192, 128>>, <<2048, 512>>, 8),
     ProgramHeader(Wide(1), <<0, 16>>, <<32768, 16>>, 3)}

\* a 16-bit and a 32-bit field in the byte order of the file
Field16(x, littleEndian) ==
    IF littleEndian THEN <<x % 256, x \div 256>> ELSE <<x \div 256, x % 256>>

Field32(w, littleEndian) ==
    IF littleEndian THEN Field16(w[2], TRUE) \o Field16(w[1], TRUE)
                    ELSE Field16(w[1], FALSE) \o Field16(w[2], FALSE)

\* the file offset of the bytes of program header k
PayloadOffset(hs, k) == 52 + 32 * Len(hs) + SumOf([j \in 1..(k - 1) |-> hs[j].filesz])

\* an ELF file of class `class` and byte order `data` (1 little, 2 big) with
\* the program headers hs: the 52-byte header (e_phoff = 52 at 28,
\* e_phentsize = 32 at 42, e_phnum at 44), the headers, then their bytes
ElfFile(class, data, hs) ==
    LET le == data = 1
        zeros(n) == [k \in 1..n |-> 0]
        header == <<127, 69, 76, 70, class, data, 1>> \o zeros(9)
                  \o Field16(2, le) \o Field16(40, le) \o Field32(Wide(1), le)
                  \o Field32(<<2048, 1>>, le) \o Field32(Wide(52), le)
                  \o Field32(Wide(0), le) \o Field32(Wide(0), le)
                  \o Field16(52, le) \o Field16(32, le) \o Field16(Len(hs), le)
                  \o Field16(0, le) \o Field16(0, le) \o Field16(0, le)
        phdr(k) == Field32(hs[k].type, le) \o Field32(Wide(PayloadOffset(hs, k)), le)
                   \o Field32(hs[k].vaddr, le) \o Field32(hs[k].paddr, le)
                   \o Field32(Wide(hs[k].filesz), le) \o Field32(Wide(hs[k].filesz), le)
                   \o Field32(Wide(5), le) \o Field32(Wide(4), le)
        payload(k) == [j \in 1..hs[k].filesz |-> (j * 11 + k * 64) % 256]
    IN  header \o Concat([k \in 1..Len(hs) |-> phdr(k)])
        \o Concat([k \in 1..Len(hs) |-> payload(k)])

\* where a file may end: right after the class byte, after the byte order,
\* after the header, one byte before its end, at its end (0)
ElfCuts == {5, 6, 52, -1, 0}

Truncate(bytes, cut) ==
    IF cut = 0 THEN bytes
    ELSE IF cut < 0 THEN SubSeq(bytes, 1, Len(bytes) + cut)
    ELSE SubSeq(bytes, 1, IF cut < Len(bytes) THEN cut ELSE Len(bytes))

ElfInputs ==
    {[fn |-> "parseElf", arg |-> Truncate(ElfFile(class, data, hs), cut),
      desc |-> [magic |-> TRUE, class |-> class, data |-> data, hs |-> hs,
                cut |-> cut]] :
        class \in {1, 2}, data \in {1, 2}, hs \in SeqsUpTo(ProgramHeaders, MaxHeaders),
        cut \in ElfCuts}

\* a line that is not a record: the data record `:02000000A55A..` with its data
\* characters replaced by ZZ, or cut two characters short of the four it declares
MalformedLines ==
    {<<":", "0", "2", "0", "0", "0", "0", "0", "0", "Z", "Z", "5", "A", "F", "F">>,
     <<":", "0", "2", "0", "0", "0", "0", "0", "0", "A", "5">>}

\* what stands for such a line among the records of a text
Malformed == HexRecord(-1, 0, <<>>)

\* such a line alone, and after the 16 byte data record at 0x0000
MalformedHexInputs ==
    {[fn |-> "parseHex", arg |-> HexText(recs, <<"\n">>) \o line \o <<"\n">>,
      desc |-> Append(recs, Malformed)] :
        recs \in {<<>>, <<HexRecord(0, 0, Block(16))>>}, line \in MalformedLines}

\* a file that does not start with 7F 45 4C 46
BadMagicInputs ==
    {[fn |-> "parseElf", arg |-> [ElfFile(1, 1, hs) EXCEPT ![4] = 71],
      desc |-> [magic |-> FALSE, class |-> 1, data |-> 1, hs |-> hs, cut |-> 0]] :
        hs \in SeqsUpTo(ProgramHeaders, 1)}

BinInputs ==
    {[fn |-> "parseBin", arg |-> bytes, desc |-> <<>>] :
        bytes \in {<<>>, <<90>>, Block(256), Block(257)}}

ParseInit ==
    /\ TransportInit /\ impl = "web"
    /\ ProtocolInit
    /\ ingested = <<>>
    /\ consumed = <<>>
    /\ stale = 0
    /\ AppInit
    /\ \/ parseIn \in HexInputs
       \/ parseIn \in MalformedHexInputs
       \/ parseIn \in ElfInputs
       \/ parseIn \in BadMagicInputs
       \/ parseIn \in BinInputs
    /\ parseOut = NoParse
    /\ DeviceInit

\* a call of parseBin, parseHex, parseElf on the file drawn
FParseBin ==
    /\ parseIn.fn = "parseBin"
    /\ parseOut = NoParse
    /\ parseOut' = parseBin(parseIn.arg)
    /\ UNCHANGED <<parseIn, tvars, hvars, pvars, avars, dvars>>

FParseHex ==
    /\ parseIn.fn = "parseHex"
    /\ parseOut = NoParse
    /\ parseOut' = parseHex(parseIn.arg)
    /\ UNCHANGED <<parseIn, tvars, hvars, pvars, avars, dvars>>

FParseElf ==
    /\ parseIn.fn = "parseElf"
    /\ parseOut = NoParse
    /\ parseOut' = parseElf(parseIn.arg)
    /\ UNCHANGED <<parseIn, tvars, hvars, pvars, avars, dvars>>

ParseNext ==
    \/ FParseBin
    \/ FParseHex
    \/ FParseElf

ParseSpec == ParseInit /\ [][ParseNext]_vars

-----------------------------------------------------------------------------
(* FlashSpec: program() writes the selected file to a device that stores    *)
(* what it is sent, and the bytes are read back with readMemory             *)

\* most chunks of the largest file
MaxChunks == 2

\* program(): chunkSize
ChunkSize == 256

\* the character code of a character of a HEX text
CharCode(c) ==
    CASE c = ":" -> 58
      [] c = "\n" -> 10
      [] c = "\r" -> 13
      [] \E k \in 1..10 : HexDigits[k] = c -> 47 + (CHOOSE k \in 1..10 : HexDigits[k] = c)
      [] OTHER -> 54 + (CHOOSE k \in 11..16 : HexDigits[k] = c)

\* handleFileSelect: new Uint8Array(await f.arrayBuffer()), the bytes of the file
FileBytes(in) ==
    IF in.fn = "parseHex" THEN [k \in 1..Len(in.arg) |-> CharCode(in.arg[k])] ELSE in.arg

\* mutant: the chunk ends one byte early
ChunkOf_Short(data, i) == Slice(data, i * ChunkSize, i * ChunkSize + ChunkSize - 1)

\* program(): file.data.slice(start, end) of chunk i
ChunkOf(data, i) == Slice(data, i * ChunkSize, i * ChunkSize + ChunkSize)

\* program(): baseAddress + start of chunk i
ChunkAddr(i) == WAdd(<<2048, 0>>, Wide(i * ChunkSize))

\* program(): protocolRef.current.writeMemory(addr, chunk)
WriteCall(data, i) == Call("writeMemory", ChunkAddr(i), 0, ChunkOf(data, i))

\* the reading back of chunk i: readMemory(addr, chunk.length)
ReadCall(data, i) == Call("readMemory", ChunkAddr(i), Len(ChunkOf(data, i)), <<>>)

\* the cells (address, byte) of a block of bytes at an address
CellsAt(addr, data) == {<<WAdd(addr, Wide(j - 1)), data[j]>> : j \in 1..Len(data)}

\* the device stores a block of bytes
Store(mem, addr, data) ==
    LET new == {c[1] : c \in CellsAt(addr, data)}
    IN  [a \in DOMAIN mem \cup new |->
            IF a \in new THEN (CHOOSE c \in CellsAt(addr, data) : c[1] = a)[2] ELSE mem[a]]

\* the device reads n bytes, 0xFF where nothing was stored
Load(mem, addr, n) ==
    [j \in 1..n |-> LET a == WAdd(addr, Wide(j - 1))
                    IN  IF a \in DOMAIN mem THEN mem[a] ELSE 255]

\* the device takes a frame: the new state, the new memory and the answer
DeviceStep(d, mem, frame) ==
    CASE d.st = "cmd" /\ frame = <<CMD.WRITE_MEMORY, 255 - CMD.WRITE_MEMORY>> ->
            [dev |-> [d EXCEPT !.st = "waddr"], flash |-> mem, out |-> <<ACK>>]
      [] d.st = "cmd" /\ frame = <<CMD.READ_MEMORY, 255 - CMD.READ_MEMORY>> ->
            [dev |-> [d EXCEPT !.st = "raddr"], flash |-> mem, out |-> <<ACK>>]
      [] d.st \in {"waddr", "raddr"} /\ Len(frame) = 5 ->
            [dev |-> [st |-> IF d.st = "waddr" THEN "wdata" ELSE "rlen",
                      addr |-> <<frame[1] * 256 + frame[2], frame[3] * 256 + frame[4]>>],
             flash |-> mem, out |-> <<ACK>>]
      [] d.st = "wdata" /\ Len(frame) >= frame[1] + 3 ->
            [dev |-> [d EXCEPT !.st = "cmd"],
             flash |-> Store(mem, d.addr, SubSeq(frame, 2, frame[1] + 2)),
             out |-> <<ACK>>]
      [] d.st = "rlen" /\ Len(frame) = 2 ->
            [dev |-> [d EXCEPT !.st = "cmd"], flash |-> mem,
             out |-> <<ACK>> \o Load(mem, d.addr, frame[1] + 1)]
      [] OTHER -> [dev |-> [d EXCEPT !.st = "cmd"], flash |-> mem, out |-> <<NACK>>]

\* the device answers the frame written last
DeviceAnswer ==
    /\ Waiting /\ buffer = <<>>
    /\ wire # <<>> /\ wire[Len(wire)].d = "w"
    /\ LET r == DeviceStep(dev, flash, wire[Len(wire)].x)
       IN  /\ dev' = r.dev
           /\ flash' = r.flash
           /\ ReadLoopChunk(r.out)
    /\ UNCHANGED <<job, hvars, pvars, avars, fvars>>

\* program() up to its first `await protocolRef.current.writeMemory(...)`, or to
\* its end for a file of no bytes
Program ==
    /\ job.h = "none" /\ op.name = "none"
    /\ status = "connected" /\ cpc = "idle"
    /\ LET data == FileBytes(parseIn)
       IN  IF TotalChunks(Len(data)) = 0
           THEN /\ job' = [NoJob EXCEPT !.h = "program", !.st = "done"]
                /\ UNCHANGED <<tvars, pvars>>
           ELSE /\ job' = [NoJob EXCEPT !.h = "program", !.st = "working", !.data = data,
                                        !.calls = <<WriteCall(data, 0)>>]
                /\ OpCall(WriteCall(data, 0))
    /\ UNCHANGED <<dev, flash, hvars, avars, fvars>>

\* the reading back of what program() wrote, up to the first await
ReadBack ==
    /\ job.h = "program" /\ job.st = "done" /\ job.data # <<>>
    /\ op.name = "none"
    /\ job' = [job EXCEPT !.h = "readBack", !.st = "working", !.i = 0]
    /\ OpCall(ReadCall(job.data, 0))
    /\ UNCHANGED <<dev, flash, hvars, avars, fvars>>

\* the operation awaited settles: the loop goes on to the next chunk or ends;
\* a rejection ends it (the catch)
ChunkSettled ==
    /\ job.st = "working" /\ op.name = "none" /\ ret.st # "none"
    /\ LET read == IF job.h = "readBack" THEN ret.val ELSE <<>>
           next == IF job.h = "readBack" THEN ReadCall(job.data, job.i + 1)
                                         ELSE WriteCall(job.data, job.i + 1)
       IN  IF ret.st = "error"
           THEN /\ job' = [job EXCEPT !.st = "failed"]
                /\ UNCHANGED <<tvars, pvars>>
           ELSE IF job.i + 1 < TotalChunks(Len(job.data))
           THEN /\ job' = [job EXCEPT !.i = job.i + 1, !.got = job.got \o read,
                                      !.calls = IF job.h = "program"
                                                THEN Append(job.calls, next)
                                                ELSE job.calls]
                /\ OpCall(next)
           ELSE /\ job' = [job EXCEPT !.st = "done", !.got = job.got \o read]
                /\ UNCHANGED <<tvars, pvars>>
    /\ UNCHANGED <<dev, flash, hvars, avars, fvars>>

\* the files: of no byte, of one byte, of one chunk, of one chunk and a byte,
\* of MaxChunks chunks; HEX texts of at most one record; whole ELF32 files of
\* at most one program header
FlashInputs ==
    [bin |-> {[fn |-> "parseBin", arg |-> bytes, desc |-> <<>>] :
                 bytes \in {<<>>, <<90>>, Block(ChunkSize), Block(ChunkSize + 1),
                            Block(MaxChunks * ChunkSize)}},
     hex |-> {[fn |-> "parseHex", arg |-> HexText(recs, <<"\n">>), desc |-> recs] :
                 recs \in SeqsUpTo(HexRecords, 1)},
     elf |-> {f \in ElfInputs : /\ f.desc.class = 1 /\ f.desc.data = 1
                                /\ f.desc.cut = 0 /\ Len(f.desc.hs) <= 1}]

FlashInit ==
    /\ TransportInit /\ impl = "web"
    /\ ProtocolInit
    /\ ingested = <<>>
    /\ consumed = <<>>
    /\ stale = 0
    /\ AppInit
    /\ \/ parseIn \in FlashInputs.bin
       \/ parseIn \in FlashInputs.hex
       \/ parseIn \in FlashInputs.elf
    /\ parseOut = NoParse
    /\ DeviceInit

FlashNext ==
    \/ PConnect
    \/ FParseBin
    \/ FParseHex
    \/ FParseElf
    \/ Program
    \/ ReadBack
    \/ ChunkSettled
    \/ DeviceAnswer
    \/ PReadPoll
    \/ PReadWake
    \/ POpResume
    \/ POpFail

FlashSpec == FlashInit /\ [][FlashNext]_vars

-----------------------------------------------------------------------------
(* StaleSpec: protocol operations one after another, over a device whose    *)
(* bytes may arrive late; `stale` counts the bytes at the head of the       *)
(* buffer that were received before the operation wrote its request         *)

\* one call of each operation, with valid arguments
StaleCalls ==
    {Call(name, <<0, 0>>, 0, <<>>) : name \in {"sync", "getID", "getVersion", "eraseAll"}}
    \cup {Call("readMemory", <<2048, 0>>, 1, <<>>),
          Call("writeMemory", <<2048, 0>>, 0, <<90>>),
          Call("firmwareCRC", <<2048, 0>>, 1, <<>>)}

\* readLoop pushes a chunk that the device sends in answer to a request of the
\* operation in flight, or of the last one (late)
SDeviceSend ==
    /\ buffer = <<>>
    /\ \E k \in DOMAIN wire : wire[k].d = "w"
    /\ \E value \in DeviceChunks : ReadLoopChunk(value)
    /\ UNCHANGED <<hvars, pvars>>
    /\ UNCHANGED <<avars, fvars, dvars>>

\* a call: what the buffer holds when the request is written was received
\* before it, unless the call begins with a flush
SOpCall ==
    /\ \E o \in StaleCalls :
          /\ OpCall(o)
          /\ stale' = IF OpBegin(o).k = "flush" THEN 0 ELSE Len(buffer)
    /\ UNCHANGED <<ingested, consumed>>
    /\ UNCHANGED <<avars, fvars, dvars>>

\* sync writes its request after the flush
SOpResume ==
    /\ OpResume
    /\ stale' = IF op.pc = "flushed" THEN Len(buffer) ELSE stale
    /\ UNCHANGED <<ingested, consumed>>
    /\ UNCHANGED <<avars, fvars, dvars>>

\* a read that returns takes its bytes from the head of the buffer
SReadPoll ==
    /\ ReadPoll
    /\ stale' = IF rd'.st # "ok" THEN stale
                ELSE IF stale > Len(rd'.data) THEN stale - Len(rd'.data) ELSE 0
    /\ UNCHANGED <<ingested, consumed, pvars>>
    /\ UNCHANGED <<avars, fvars, dvars>>

StaleNext ==
    \/ PConnect
    \/ SDeviceSend
    \/ PTimerFire
    \/ SReadPoll
    \/ PReadWake
    \/ SOpCall
    \/ SOpResume
    \/ POpFail

StaleSpec == Init /\ [][StaleNext]_vars

-----------------------------------------------------------------------------
(* Properties of the transport *)

\* C6: between two flushes the bytes returned by successful reads, followed by
\* the bytes still buffered, are exactly the bytes ingested, in order (nothing
\* lost, duplicated or reordered), and a successful read(count) returns exactly
\* count bytes.
C6_ReadsAreFifo ==
    /\ ingested = consumed \o buffer
    /\ rd.st = "ok" => Len(rd.data) = rd.count

\* C6 witness: two or more bytes were read while later bytes are still buffered
C6_Witness ==
    /\ impl = "web" /\ rd.st = "ok" /\ rd.count = 1
    /\ Len(consumed) >= 2 /\ buffer # <<>>

\* a step in which the read in flight throws its timeout error
TimeoutStep == Waiting /\ rd'.st = "timeout"

\* C7: a read throws a timeout only at a poll at which more than timeoutMs has
\* elapsed and fewer than count bytes are buffered, and that poll is the first
\* one after the timeout elapsed (the sleep before it began within the timeout);
\* a read that ends without enough bytes on a transport that keeps reading ends
\* with the timeout error; and every read ends.
C7_ReadTimesOut ==
    /\ [][TimeoutStep => /\ rd.elapsed > rd.timeoutMs
                          /\ rd.elapsed - rd.last <= rd.timeoutMs
                          /\ Len(buffer) < rd.count]_vars
    /\ [][(/\ Waiting /\ ~Waiting'
           /\ Len(buffer) < rd.count
           /\ (impl = "web" => keepReading)) => rd'.st = "timeout"]_vars
    /\ (Waiting ~> ~Waiting)

\* C7 witness: a read has failed with the timeout error
C7_Witness == rd.st = "timeout" /\ rd.count = MaxCount

\* C8: on the Web Serial transport a poll of a blocked read that finds
\* keepReading cleared by disconnect() and too few bytes throws the
\* disconnection error, whatever time is left; the blocked read ends; and a
\* disconnect() in flight completes.
C8_DisconnectEndsRead ==
    /\ [][(/\ impl = "web" /\ rd.st = "poll" /\ rd' # rd
           /\ ~keepReading /\ Len(buffer) < rd.count) => rd'.st = "disconnected"]_vars
    /\ ((impl = "web" /\ Waiting /\ ~keepReading) ~> ~Waiting)
    /\ ((impl = "web" /\ dpc # "idle") ~> dpc = "idle")
    /\ [][(dpc = "close" /\ dpc' = "idle" /\ port = "open")
            => (dres' = "ok" /\ port' = "null" /\ status' = "disconnected")]_vars

\* C8 witness: the read failed with the disconnection error and the
\* disconnect() of the open port has completed
C8_Witness ==
    /\ impl = "web" /\ rd.st = "disconnected"
    /\ dpc = "idle" /\ dres = "ok" /\ port = "null" /\ status = "disconnected"

\* C9 (as claimed): a write on a transport whose channel is not open fails and
\* injects nothing into the buffer, at once or later.
C9_WriteNotOpenFails ==
    [][(TWrite /\ ~ChannelOpen) => (wr' = "error" /\ buffer' = buffer /\ timers' = timers)]_vars

\* C10: flush empties the buffer and changes nothing else of the transport
\* (status, port, keepReading, the read loop, pending pushes, calls in flight);
\* every ingestion step, before or after a flush, appends its bytes to the end
\* of the buffer.
C10_FlushOnlyEmptiesBuffer ==
    /\ [][TFlush => /\ buffer' = <<>>
                    /\ UNCHANGED <<impl, status, port, keepReading, loop, timers,
                                   cpc, dpc, dres, rd, wr>>]_vars
    /\ [][(TDeviceSend \/ TTimerFire)
            => (Len(buffer') > Len(buffer) /\ buffer' = buffer \o Appended)]_vars
    /\ [](ingested = consumed \o buffer)

\* C10 witness: bytes were read, then the buffer was flushed (nothing counts as
\* consumed), then a byte arrived with the connection still up and is buffered
C10_Witness ==
    /\ rd.st = "ok" /\ rd.data # <<>>
    /\ consumed = <<>> /\ ingested # <<>> /\ buffer = ingested
    /\ ChannelOpen /\ (impl = "web" => loop = "reading" /\ keepReading)

-----------------------------------------------------------------------------
(* Properties of the protocol operations, read off the log of an operation *)

\* the operation the log is of
Logged(name) == wire # <<>> /\ wire[1].x.name = name

\* the frames written, in order
Written == SelectSeq(wire, LAMBDA e : e.d = "w")

\* bit k of a byte
Bit(x, k) == (x \div Pow2(k)) % 2

\* the XOR of the bytes of s: bit k is set when an odd number of them has it set
XorOf(s) ==
    LET odd(k) == Cardinality({i \in DOMAIN s : Bit(s[i], k) = 1}) % 2
    IN  odd(0) + 2 * odd(1) + 4 * odd(2) + 8 * odd(3) + 16 * odd(4) + 32 * odd(5)
        + 64 * odd(6) + 128 * odd(7)

\* C1: in writeMemory(address, data) with 1..256 bytes of data, the third frame
\* written is the data frame [n, data..., checksum] with n = data.length - 1 and
\* checksum the XOR of n and all data bytes; before it the log holds exactly
\* the WRITE_MEMORY command, its ACK, the address frame and its ACK; nothing is
\* written after it, and writeMemory does not return without having written it
C1_WriteMemoryDataFrame ==
    (Logged("writeMemory") /\ Len(wire[1].x.data) \in 1..256) =>
        LET data == wire[1].x.data
            n == Len(data) - 1
        IN  /\ Len(Written) <= 3
            /\ ret.st = "ok" => Len(Written) = 3
            /\ Len(Written) = 3 =>
                  /\ Written[3].x = <<n>> \o data \o <<XorOf(<<n>> \o data)>>
                  /\ Len(Written[3].x) = Len(data) + 2
                  /\ wire[2] = Event("w", <<CMD.WRITE_MEMORY, 255 - CMD.WRITE_MEMORY>>)
                  /\ wire[3] = Event("r", <<ACK>>)
                  /\ wire[4].d = "w" /\ Len(wire[4].x) = 5
                  /\ wire[5] = Event("r", <<ACK>>)
                  /\ wire[6] = Written[3]

\* a block of 256 bytes was written and acknowledged
C1_Witness ==
    /\ Logged("writeMemory") /\ Len(wire[1].x.data) = 256
    /\ ret.st = "ok" /\ Len(Written) = 3

\* the arguments of the call o violate a length or range precondition
OutOfRange(o) ==
    \/ o.name = "readMemory" /\ o.arg \notin 1..256
    \/ o.name = "writeMemory" /\ Len(o.data) \notin 1..256
    \/ o.name = "firmwareCRC" /\ o.arg \notin 1..65536

\* a step that takes the protocol engine out of its idle state: a call
CallStep == op.name = "none" /\ <<op, ret, wire>>' # <<op, ret, wire>>

\* C2: a call of readMemory with a length outside 1..256, of writeMemory with 0
\* or more than 256 bytes, or of firmwareCRC with a sector count outside
\* 1..0x10000 fails at once with an invalid-argument error: nothing is written,
\* no read is started and the transport buffer keeps its bytes
C2_InvalidArgumentFailsFirst ==
    [][(CallStep /\ OutOfRange(wire'[1].x)) =>
          /\ ret'.st = "error"
          /\ ret'.err \in {"Invalid read length", "Invalid write length",
                           "Invalid sector count"}
          /\ op' = NoOp /\ rd' = NoRead
          /\ Len(wire') = 1
          /\ buffer' = buffer /\ timers' = timers /\ wr' = wr]_vars

\* firmwareCRC was called with 0x10001 sectors while bytes were buffered
C2_Witness ==
    /\ Logged("firmwareCRC") /\ wire[1].x.arg = 65537
    /\ ret.err = "Invalid sector count"
    /\ buffer # <<>>

\* the four bytes of a 32-bit address, most significant first
BigEndian(addr) == <<addr[1] \div 256, addr[1] % 256, addr[2] \div 256, addr[2] % 256>>

\* the operation logged sends an address
SendsAddress == Logged("readMemory") \/ Logged("writeMemory") \/ Logged("firmwareCRC")

\* C3: the address is sent as one write of exactly 5 bytes, the four address
\* bytes most significant first and then their XOR, also for an address with
\* the top bit set; 0x08000000 is sent as [0x08, 0x00, 0x00, 0x00, 0x08]
C3_SendAddressFrame ==
    (SendsAddress /\ Len(Written) >= 2) =>
        LET addr == wire[1].x.addr
        IN  /\ wire[4] = Event("w", BigEndian(addr) \o <<XorOf(BigEndian(addr))>>)
            /\ Len(wire[4].x) = 5
            /\ wire[3].d = "r"
            /\ Len(wire) >= 5 => wire[5].d = "r"
            /\ addr = <<2048, 0>> => wire[4].x = <<8, 0, 0, 0, 8>>

\* the address 0xFEDCBA98 was sent
C3_Witness ==
    /\ SendsAddress /\ Len(Written) >= 2
    /\ wire[1].x.addr = <<65244, 47768>>

\* the bytes the reads of the operation returned, in order
RECURSIVE BytesRead(_)
BytesRead(w) ==
    IF w = <<>> THEN <<>>
    ELSE (IF Head(w).d = "r" THEN Head(w).x ELSE <<>>) \o BytesRead(Tail(w))

\* getID has read the ACK of GET_ID and then 0x04, 0x41, 0x54, 0x33, 0x32, 0x01, 0x79
ReadCannedID ==
    /\ Logged("getID")
    /\ BytesRead(wire) = <<ACK, 4, 65, 84, 51, 50, 1, 121>>

\* C4 as stated: from the bytes 04 41 54 33 32 01 79 getID returns the product
\* id 0x33325441 and the project id 1
C4_CannedID_AsStated ==
    ReadCannedID => (ret.st = "ok" /\ ret.val = [pid |-> <<13106, 21569>>, projectID |-> 1])

\* C4 as amended: from the bytes 04 41 54 33 32 01 79 getID returns the product
\* id 0x33324154 (0x33 and 0x32 above 0x41 and 0x54) and the project id 1
C4_CannedID ==
    ReadCannedID => (ret.st = "ok" /\ ret.val = [pid |-> <<13106, 16724>>, projectID |-> 1])

\* getID has read these bytes from the mock device
C4_Witness == ReadCannedID /\ impl = "mock"

\* C5: getID writes the GET_ID command and nothing else; after its ACK it reads
\* one byte n, then n + 1 ID bytes, then one byte; it fails when that byte is
\* not ACK, and else returns pid = b2*2^24 + b3*2^16 + b0*2^8 + b1, which is
\* not negative, and the project id b4, for ID bytes b0..b4
C5_GetID ==
    Logged("getID") =>
        /\ Len(wire) >= 2 => wire[2] = Event("w", <<CMD.GET_ID, 255 - CMD.GET_ID>>)
        /\ Len(Written) <= 1
        /\ Len(wire) >= 4 => wire[4].d = "r" /\ Len(wire[4].x) = 1
        /\ Len(wire) >= 5 => wire[5].d = "r" /\ Len(wire[5].x) = wire[4].x[1] + 1
        /\ ret.st = "ok" => Len(wire) = 6
        /\ Len(wire) >= 6 =>
              LET b == wire[5].x
              IN  /\ Len(wire) = 6 /\ wire[6].d = "r" /\ Len(wire[6].x) = 1
                  /\ wire[6].x # <<ACK>> =>
                        ret.st = "error" /\ ret.err = "GetID: Missing final ACK"
                  /\ wire[6].x = <<ACK>> =>
                        /\ ret.st = "ok"
                        /\ Len(b) >= 5 =>
                              /\ ret.val.pid = <<b[3] * 256 + b[4], b[1] * 256 + b[2]>>
                              /\ ret.val.pid[1] >= 0
                              /\ ret.val.projectID = b[5]

\* getID returned a product id whose top byte is 0x80 or more
C5_Witness ==
    /\ Logged("getID") /\ ret.st = "ok"
    /\ Len(wire[5].x) >= 5 /\ wire[5].x[3] >= 128

-----------------------------------------------------------------------------
(* Properties of the buffer across disconnect() *)

\* the step in which a disconnect() resolves
DisconnectCompletes == TDisconnect /\ dpc' = "idle" /\ dres' = "ok"

\* C11: when disconnect() completes the transport buffer is empty
C11_BufferEmptyAfterDisconnect ==
    [][DisconnectCompletes => buffer' = <<>>]_vars

\* disconnect() has been called and no connect() since: ingestion is stopped
Stopped == IF impl = "web" THEN ~keepReading ELSE status = "disconnected"

\* C12: no step of disconnect() touches the buffer, and once ingestion is
\* stopped a read whose count does not exceed the buffered amount still
\* returns the first count bytes of the buffer, in order, and leaves the rest
C12_DisconnectKeepsBuffered ==
    /\ [][TDisconnect => buffer' = buffer]_vars
    /\ [][(TReadPoll /\ Stopped /\ Len(buffer) >= rd.count) =>
             /\ rd'.st = "ok"
             /\ Len(rd'.data) = rd.count
             /\ rd'.data \o buffer' = buffer]_vars

\* after a completed disconnect() of the Web Serial transport a read is about
\* to test a buffer that holds more bytes than it asks for
C12_Witness ==
    /\ impl = "web" /\ dres = "ok" /\ dpc = "idle" /\ port = "null"
    /\ rd.st = "poll" /\ rd.elapsed = 0
    /\ rd.count >= 1 /\ Len(buffer) > rd.count

-----------------------------------------------------------------------------
(* Properties of sync, readMemory and firmwareCRC *)

\* what the log and the outcome of sync() must be in a state
SyncLog ==
    /\ Len(wire) <= 4
    /\ Len(wire) >= 2 => wire[2] = Event("f", <<>>)
    /\ Len(wire) >= 3 => wire[3] = Event("w", <<127>>)
    /\ (op.name = "sync" /\ Waiting) =>
          (Len(wire) = 3 /\ rd.count = 1 /\ rd.timeoutMs = 1000)
    /\ ret.st = "ok" => Len(wire) = 4
    /\ Len(wire) = 4 =>
          /\ wire[4].d = "r" /\ Len(wire[4].x) = 1
          /\ LET b == wire[4].x[1]
             IN  /\ b = 121 => ret.st = "ok"
                 /\ b = 31 => (ret.st = "error" /\ ret.err = "Received NACK during sync")
                 /\ b \notin {121, 31} =>
                       (ret.st = "error" /\ ret.err = "Sync failed" /\ ret.val = <<b>>)

\* C13: sync() flushes, then writes the single byte 0x7F, then reads 1 byte with
\* a timeout of 1000 ms; it returns iff that byte is 0x79, throws the NACK
\* error for 0x1F and an error that names the byte for any other; the buffer
\* is emptied in the step of the call, so no byte buffered before is the answer
C13_Sync ==
    [][/\ Logged("sync")' => SyncLog'
       /\ (CallStep /\ Logged("sync")' /\ Len(wire') = 2) =>
             (buffer' = <<>> /\ op'.name = "sync" /\ rd' = NoRead /\ wr' = wr)]_vars

\* sync() was answered with NACK
C13_Witness ==
    /\ Logged("sync") /\ Len(wire) = 4
    /\ wire[4].x = <<NACK>> /\ ret.st = "error"

-----------------------------------------------------------------------------
(* Properties of the application *)

\* the handlers that wait for a protocol operation
OpsInFlight == {k \in DOMAIN tasks : tasks[k].pc \in OpPcs}

-----------------------------------------------------------------------------
(* Properties of readMemory and firmwareCRC *)

\* the log of a readMemory(address, length) with length in 1..256
ReadMemoryLog ==
    LET length == wire[1].x.arg
        n == length - 1
    IN  /\ Len(wire) <= 8
        /\ Len(wire) >= 2 => wire[2] = Event("w", <<17, 238>>)
        /\ Len(wire) >= 3 => wire[3].d = "r" /\ Len(wire[3].x) = 1
        /\ Len(wire) >= 4 =>
              /\ wire[3].x = <<ACK>>
              /\ wire[4] = Event("w", SendAddressFrame(wire[1].x.addr))
        /\ Len(wire) >= 5 => wire[5].d = "r" /\ Len(wire[5].x) = 1
        /\ Len(wire) >= 6 =>
              /\ wire[5].x = <<ACK>>
              /\ wire[6] = Event("w", <<n, 255 - n>>)
        /\ Len(wire) >= 7 =>
              /\ wire[7].d = "r" /\ Len(wire[7].x) = 1
              /\ wire[7].x # <<ACK>> => Len(wire) = 7 /\ ret.st = "error"
        /\ Len(wire) = 8 =>
              /\ wire[7].x = <<ACK>>
              /\ wire[8].d = "r" /\ Len(wire[8].x) = length
              /\ ret.st = "ok" /\ ret.val = wire[8].x
        /\ ret.st = "ok" => Len(wire) = 8

\* the step in which the read of the data bytes of readMemory returns
ReadMemoryDataRead ==
    /\ op.name = "readMemory" /\ op.pc = "data"
    /\ rd.st = "poll" /\ rd'.st = "ok"

\* C15: readMemory(address, length) with length in 1..256 writes the
\* READ_MEMORY command, after its ACK the address frame, after its ACK
\* [n, 0xFF XOR n] with n = length - 1, reads one byte, fails unless it is ACK,
\* and then reads and returns exactly `length` bytes: the first `length` bytes
\* of the receive buffer, in their order
C15_ReadMemory ==
    /\ []((Logged("readMemory") /\ wire[1].x.arg \in 1..256) => ReadMemoryLog)
    /\ [][(ReadMemoryDataRead /\ op.arg \in 1..256) =>
             /\ Len(rd'.data) = op.arg
             /\ rd'.data \o buffer' = buffer]_vars

\* readMemory of 256 bytes returned them
C15_Witness ==
    /\ Logged("readMemory") /\ wire[1].x.arg = 256
    /\ ret.st = "ok" /\ Len(ret.val) = 256 /\ ret.val[1] # ret.val[2]

\* the log of a firmwareCRC(startAddress, sectorCount)
FirmwareCRCLog ==
    LET sectorCount == wire[1].x.arg
        n == sectorCount - 1
        msb == (n \div 256) % 256
        lsb == n % 256
    IN  /\ Len(wire) <= 8
        /\ sectorCount \notin 1..65536 <=>
              (ret.st = "error" /\ ret.err = "Invalid sector count")
        /\ sectorCount \notin 1..65536 => Len(wire) = 1
        /\ Len(wire) >= 2 => wire[2] = Event("w", <<172, 83>>)
        /\ Len(wire) >= 4 => wire[4] = Event("w", SendAddressFrame(wire[1].x.addr))
        /\ Len(wire) >= 6 =>
              /\ wire[5].x = <<ACK>>
              /\ wire[6] = Event("w", <<msb, lsb, XorOf(<<msb, lsb, 255>>)>>)
              /\ sectorCount = 65536 => wire[6].x = <<255, 255, 255>>
        /\ Len(wire) >= 7 =>
              /\ wire[7].d = "r" /\ Len(wire[7].x) = 1
              /\ wire[7].x # <<ACK>> => Len(wire) = 7 /\ ret.st = "error"
        /\ Len(wire) = 8 =>
              LET b == wire[8].x
              IN  /\ wire[7].x = <<ACK>>
                  /\ wire[8].d = "r" /\ Len(b) = 4
                  /\ ret.st = "ok"
                  /\ ret.val = <<b[1] * 256 + b[2], b[3] * 256 + b[4]>>
                  /\ ret.val[1] >= 0
        /\ ret.st = "ok" => Len(wire) = 8

\* C16: firmwareCRC fails with 'Invalid sector count', before any write, exactly
\* when sectorCount is outside 1..0x10000; else it writes, after the command
\* and the address, [msb(n), lsb(n), msb XOR lsb XOR 0xFF] with
\* n = sectorCount - 1 (0xFF, 0xFF, 0xFF for 0x10000), and returns the 4 CRC
\* bytes b as b0*2^24 + b1*2^16 + b2*2^8 + b3, which is not negative
C16_FirmwareCRC == Logged("firmwareCRC") => FirmwareCRCLog

\* firmwareCRC of 0x10000 sectors returned a CRC whose first byte is 0x80 or more
C16_Witness ==
    /\ Logged("firmwareCRC") /\ wire[1].x.arg = 65536
    /\ ret.st = "ok" /\ wire[8].x[1] >= 128

-----------------------------------------------------------------------------
(* Properties of parseHex *)

\* parseHex was applied to the text of the records recs
HexParsed == parseIn.fn = "parseHex" /\ parseOut.st # "none"

\* the value of an extended address record, its two data bytes taken big-endian
ExtValue(r) == r.data[1] * 256 + r.data[2]

\* the extended address the file states for record k, as an unsigned number:
\* that of the last extended address record before it
ExtBefore(recs, k) ==
    LET before == {j \in 1..(k - 1) : recs[j].type \in {2, 4}}
    IN  IF before = {} THEN Wide(0)
        ELSE LET r == recs[CHOOSE j \in before : \A i \in before : i <= j]
             IN  IF r.type = 4 THEN <<ExtValue(r), 0>> ELSE Wide(ExtValue(r) * 16)

\* the absolute address the file states for the data record k
AbsoluteAddr(recs, k) == WAdd(ExtBefore(recs, k), Wide(recs[k].addr))

\* the text holds exactly the data records i and j, both with data, i before j,
\* and no end of file record before j
TwoDataRecords(recs, i, j) ==
    /\ i < j
    /\ {k \in DOMAIN recs : recs[k].type = 0} = {i, j}
    /\ recs[i].data # <<>> /\ recs[j].data # <<>>
    /\ \A k \in 1..j : recs[k].type # 1

\* record j continues record i: its address is the address of i plus the
\* length of i, and no extended address record lies between the two
Continues(recs, i, j) ==
    /\ AbsoluteAddr(recs, j) = WAdd(AbsoluteAddr(recs, i), Wide(Len(recs[i].data)))
    /\ \A k \in (i + 1)..(j - 1) : recs[k].type \notin {2, 4}

\* C17: two consecutive data records come out as one segment, holding the
\* bytes of the first and then those of the second, if and only if the second
\* continues the first, and as two segments otherwise; 16 bytes at 0x0000 and
\* 16 bytes at 0x0010 come out as one segment of 32 bytes at 0x0000, and as two
\* segments when an extended linear address record lies between them
C17_MergeIffContiguous ==
    HexParsed =>
        \A i, j \in DOMAIN parseIn.desc :
            TwoDataRecords(parseIn.desc, i, j) =>
                LET recs == parseIn.desc
                    segments == parseOut.segments
                IN  /\ parseOut.st = "ok"
                    /\ IF Continues(recs, i, j)
                       THEN /\ Len(segments) = 1
                            /\ segments[1].data = recs[i].data \o recs[j].data
                       ELSE /\ Len(segments) = 2
                            /\ segments[1].data = recs[i].data
                            /\ segments[2].data = recs[j].data
                    /\ (recs[i].addr = 0 /\ recs[j].addr = 16 /\ Len(recs) = 2) =>
                          /\ Len(segments) = 1
                          /\ segments[1].address = Wide(0)
                          /\ Len(segments[1].data) = 32

\* the text is an extended linear address record and then a data record with data
LinearThenData ==
    /\ HexParsed
    /\ Len(parseIn.desc) = 2
    /\ parseIn.desc[1].type = 4
    /\ parseIn.desc[2].type = 0 /\ parseIn.desc[2].data # <<>>

\* C18: every segment address parseHex returns is in 0 .. 2^32 - 1; a data
\* record with address a under an extended linear address record with value v
\* comes out as a segment at v * 65536 + a
C18_UnsignedAddress ==
    /\ HexParsed =>
          \A k \in DOMAIN parseOut.segments :
              /\ parseOut.segments[k].address[1] \in 0..65535
              /\ parseOut.segments[k].address[2] \in 0..65535
    /\ LinearThenData =>
          /\ Len(parseOut.segments) = 1
          /\ parseOut.segments[1].address =
                <<ExtValue(parseIn.desc[1]), parseIn.desc[2].addr>>

-----------------------------------------------------------------------------
(* Properties of parseElf *)

\* parseElf was applied to a file
ElfParsed == parseIn.fn = "parseElf" /\ parseOut.st # "none"

\* the file is whole and of the 32-bit class
WholeElf32 ==
    ElfParsed /\ parseIn.desc.magic /\ parseIn.desc.class = 1 /\ parseIn.desc.cut = 0

\* the program headers of the file that are PT_LOAD with p_filesz > 0, in order
Loadable(hs) == {k \in DOMAIN hs : hs[k].type = Wide(1) /\ hs[k].filesz > 0}

\* the k-th smallest element of a set of numbers
Nth(S, k) == CHOOSE x \in S : Cardinality({y \in S : y <= x}) = k

\* C19: from a 32-bit ELF file parseElf returns one segment for each program
\* header with p_type = 1 and p_filesz > 0, in the order of the headers, at
\* p_paddr and holding file[p_offset .. p_offset + p_filesz), and nothing for
\* the other headers; one PT_LOAD header with p_paddr = 0x08000000 and
\* p_filesz = 64 gives one segment of 64 bytes at 0x08000000
C19_ElfSegments ==
    WholeElf32 =>
        LET hs == parseIn.desc.hs
            segments == parseOut.segments
        IN  /\ parseOut.st = "ok"
            /\ Len(segments) = Cardinality(Loadable(hs))
            /\ \A n \in DOMAIN segments :
                  LET k == Nth(Loadable(hs), n)
                  IN  /\ segments[n].address = hs[k].paddr
                      /\ segments[n].data =
                            SubSeq(parseIn.arg, PayloadOffset(hs, k) + 1,
                                   PayloadOffset(hs, k) + hs[k].filesz)
            /\ hs = <<ProgramHeader(Wide(1), <<8192, 0>>, <<2048, 0>>, 64)>> =>
                  /\ Len(segments) = 1
                  /\ segments[1].address = <<2048, 0>>
                  /\ Len(segments[1].data) = 64

\* a big-endian file with a header that is not loadable and then a PT_LOAD
\* header whose p_paddr has the top bit set was parsed
C19_Witness ==
    /\ WholeElf32 /\ parseIn.desc.data = 2
    /\ Len(parseIn.desc.hs) = 2
    /\ parseIn.desc.hs[1].type = Wide(2)
    /\ parseIn.desc.hs[2].paddr = <<32768, 16>>
    /\ Len(parseOut.segments) = 1

\* C20: on a file with the ELF magic and the class byte 2 parseElf throws the
\* error for 64-bit files, however short the file is after the class byte
C20_Elf64Unsupported ==
    (ElfParsed /\ parseIn.desc.magic /\ parseIn.desc.class = 2) =>
        /\ parseOut.st = "error"
        /\ parseOut.err = "64-bit ELF not supported yet (Target is likely 32-bit MCU)"

-----------------------------------------------------------------------------
(* Properties of the parsers on malformed input *)

\* the text holds a line that is not a record
MalformedHex == parseIn.fn = "parseHex" /\ \E k \in DOMAIN parseIn.desc : parseIn.desc[k] = Malformed

\* the file has a wrong magic, or it ends before the end of its header, of one
\* of its program headers or of the bytes of one of its PT_LOAD headers
MalformedElf ==
    /\ parseIn.fn = "parseElf"
    /\ parseIn.desc.class = 1
    /\ LET hs == parseIn.desc.hs
           size == Len(parseIn.arg)
       IN  \/ ~parseIn.desc.magic
           \/ size < 52
           \/ size < 52 + 32 * Len(hs)
           \/ \E k \in DOMAIN hs :
                 /\ hs[k].type = Wide(1)
                 /\ hs[k].filesz > 0
                 /\ size < PayloadOffset(hs, k) + hs[k].filesz

\* C21: a parser returns a segment list or raises an error and then returns no
\* segment; on a text with a line of non-hex characters or with fewer data
\* characters than declared, and on a file with a wrong magic or with a header
\* or segment range past its end, it raises an error
C21_MalformedInputRaises ==
    parseOut.st # "none" =>
        /\ parseOut.st \in {"ok", "error"}
        /\ parseOut.st = "error" => parseOut.segments = <<>>
        /\ (MalformedHex \/ MalformedElf) => parseOut.st = "error"

-----------------------------------------------------------------------------
(* Properties of the protocol operations on a refusal *)

\* the operations that send a command
CommandOps == {"getID", "getVersion", "readMemory", "writeMemory", "eraseAll", "firmwareCRC"}

\* the frames an operation writes when nothing is refused
FrameCount(name) ==
    CASE name \in {"sync", "getID", "getVersion"} -> 1
      [] name = "eraseAll" -> 2
      [] OTHER -> 3

\* the log of an operation: it starts with the command frame and the read of
\* one byte; a read after a write that returns something else than ACK is the
\* last entry and the operation has thrown; every write is followed by a
\* read; there are no more writes than the operation has frames
RefusalLog ==
    LET name == wire[1].x.name
    IN  /\ (name \in CommandOps /\ Len(wire) >= 2) =>
              wire[2] = Event("w", <<OpCmd(name), 255 - OpCmd(name)>>)
        /\ (name \in CommandOps /\ Len(wire) >= 3) =>
              wire[3].d = "r" /\ Len(wire[3].x) = 1
        /\ \A k \in 2..Len(wire) :
              /\ (wire[k].d = "r" /\ wire[k - 1].d = "w" /\ wire[k].x # <<ACK>>) =>
                    k = Len(wire) /\ op.name = "none" /\ ret.st = "error"
              /\ (wire[k].d = "w" /\ k < Len(wire)) => wire[k + 1].d = "r"
        /\ Len(Written) <= FrameCount(name)

\* the step in which the read of the operation in flight has timed out and the
\* operation ends
TimeoutEnds == op.name # "none" /\ rd.st = "timeout" /\ op'.name = "none"

\* C24: an operation that sends a command begins by writing
\* [opcode, opcode XOR 0xFF] and reading one byte; when a read after a write
\* returns a byte that is not ACK, or times out, the operation throws there,
\* writes nothing more (its log ends, the next log is that of a new call) and
\* no frame is written again
C24_RefusalEndsOperation ==
    /\ [](wire # <<>> => RefusalLog)
    /\ [][/\ TimeoutEnds => (ret'.st = "error" /\ wire' = wire /\ wr' = wr)
          /\ (op.name = "none" /\ wire' # wire) =>
                (wire'[1].d = "call" /\ Len(wire') <= 2)]_vars

\* the address frame of writeMemory was answered with NACK
C24_Witness ==
    /\ Logged("writeMemory") /\ Len(wire) = 5
    /\ wire[5].x = <<NACK>> /\ ret.st = "error"

-----------------------------------------------------------------------------
(* Properties of the simulated transport *)

\* the answer to a write: the handshake byte first, the two bytes of GET_ID,
\* another command byte with its complement, or anything else
Answer(data) ==
    IF Len(data) >= 1 /\ data[1] = 127
    THEN [now |-> <<ACK>>, later |-> <<>>]
    ELSE IF data = <<2, 253>>
    THEN [now |-> <<ACK>>,
          later |-> <<[rem |-> MockDelayMs, bytes |-> <<4, 65, 84, 51, 50, 1, 121>>]>>]
    ELSE IF Len(data) = 2 /\ data[1] + data[2] = 255
    THEN [now |-> <<ACK>>, later |-> <<>>]
    ELSE [now |-> <<>>, later |-> <<>>]

\* C25: a write to the simulated transport is answered with one ACK when its
\* first byte is 0x7F, with one ACK at once and 04 41 54 33 32 01 79 later
\* when it is [0x02, 0xFD], with one ACK when it is another pair
\* [c, c XOR 0xFF], and with nothing otherwise; a delayed answer is appended
\* whole, in order
C25_MockAnswers ==
    [][/\ \A data \in FrameSamples :
             MockWrite(data) =>
                /\ buffer' = buffer \o Answer(data).now
                /\ timers' = timers \o Answer(data).later
       /\ MockTimerFire => buffer' = buffer \o <<4, 65, 84, 51, 50, 1, 121>>]_vars

\* disconnect() of the simulated transport has returned and no connect() followed
MockDisconnected == impl = "mock" /\ dres = "ok" /\ status = "disconnected"

\* C26: on the simulated transport, as on the real one, a poll of a read,
\* blocked when disconnect() was called or issued after it, that finds too few
\* bytes throws the disconnection error
C26_MockDisconnectEndsRead ==
    [][(/\ MockDisconnected /\ rd.st = "poll" /\ rd' # rd
        /\ Len(buffer) < rd.count) => rd'.st = "disconnected"]_vars

-----------------------------------------------------------------------------
(* Properties of the application's status *)

\* C27: while the status is 'connected' or 'working' the application holds a
\* transport (serialRef is not null) and that transport is connected; so the
\* status does not return to 'connected' when an erase or a program ends after
\* the user disconnected
C27_ConnectedHasTransport ==
    /\ [](appStatus \in {"connected", "working"} => serialRef # 0)
    /\ [][\A k \in 1..MaxTasks, ok \in BOOLEAN :
            (/\ k \in DOMAIN tasks /\ tasks[k].h \in {"erase", "program"}
             /\ serialRef = 0 /\ protocolRef = 0
             /\ AppOpSettled(k, ok)) => appStatus' # "connected"]_vars

\* C28: when a writeMemory of program() fails, program() ends there without
\* writing another chunk and leaves the status 'error'
C28_FailedProgramIsError ==
    [][\A k \in 1..MaxTasks :
          (/\ k \in DOMAIN tasks /\ tasks[k].h = "program"
           /\ AppOpSettled(k, FALSE)) =>
             (tasks' = RemoveAt(tasks, k) /\ appStatus' = "error")]_vars

-----------------------------------------------------------------------------
(* Properties of the connect flow on the simulated transport *)

\* C29: on the simulated transport the operations of the connect flow complete
\* without error: sync, getID with the ids decoded from the canned answer, and
\* getVersion (after which the status is 'connected')
C29_MockConnectCompletes ==
    (impl = "mock" /\ op.name = "none") =>
        /\ Logged("sync") => ret.st = "ok"
        /\ Logged("getID") =>
              ret.st = "ok" /\ ret.val = GetIDResult(<<65, 84, 51, 50, 1>>)
        /\ Logged("getVersion") => ret.st = "ok"

\* C30: a getID that returns has read five ID bytes or more, and returns a
\* product id in 0..2^32-1 and a project id in 0..255
C30_GetIDComplete ==
    (Logged("getID") /\ ret.st = "ok") =>
        /\ Len(wire[5].x) >= 5
        /\ ret.val.pid[1] \in 0..65535 /\ ret.val.pid[2] \in 0..65535
        /\ ret.val.projectID \in 0..255

-----------------------------------------------------------------------------
(* Properties of programming *)

\* the cells (address, byte) the device stores
FlashCells == {<<a, flash[a]>> : a \in DOMAIN flash}

\* the cells of a list of segments
SegmentCells(segments) ==
    UNION {CellsAt(segments[k].address, segments[k].data) : k \in DOMAIN segments}

\* the bytes passed to the writeMemory calls of program(), counted per call
RECURSIVE BytesWritten(_)
BytesWritten(calls) ==
    IF calls = <<>> THEN 0 ELSE Len(Head(calls).data) + BytesWritten(Tail(calls))

\* the file was parsed with parseBin, written by program() and read back whole
ReadBackDone ==
    /\ parseIn.fn = "parseBin" /\ parseOut.st = "ok"
    /\ job.h = "readBack" /\ job.st = "done"

\* C22: the segment of parseBin, written with writeMemory in consecutive chunks
\* of 256 bytes (the last one may be shorter) to a device that stores what it
\* is sent, and read with readMemory over the same addresses and chunks, is
\* read back unchanged; the device stores the segment's bytes at the segment's
\* addresses and nothing else
C22_RoundTrip ==
    ReadBackDone =>
        LET seg == parseOut.segments[1]
        IN  /\ Len(job.calls) = TotalChunks(Len(seg.data))
            /\ \A k \in DOMAIN job.calls :
                  /\ job.calls[k].addr = WAdd(seg.address, Wide(ChunkSize * (k - 1)))
                  /\ job.calls[k].data =
                        SubSeq(seg.data, ChunkSize * (k - 1) + 1,
                               IF ChunkSize * k < Len(seg.data) THEN ChunkSize * k
                                                                ELSE Len(seg.data))
            /\ FlashCells = CellsAt(seg.address, seg.data)
            /\ job.got = seg.data

\* a file of one chunk and one byte was written and read back
C22_Witness == ReadBackDone /\ Len(job.got) = ChunkSize + 1 /\ Len(job.calls) = 2

\* C23: program() writes the segments the parser of the file's format gives:
\* each call writes 1..256 bytes, when program() has ended without an error the
\* device stores every byte of every segment at the address the parser gave it
\* and nothing else, and no byte was written twice
C23_ProgramWritesSegments ==
    (job.h = "program" /\ job.st = "done" /\ parseOut.st = "ok") =>
        /\ \A k \in DOMAIN job.calls : Len(job.calls[k].data) \in 1..ChunkSize
        /\ FlashCells = SegmentCells(parseOut.segments)
        /\ BytesWritten(job.calls) = Cardinality(DOMAIN flash)

-----------------------------------------------------------------------------
(* Properties of the bytes an operation consumes *)

\* a read of an operation that sends a command returns bytes
CommandRead == op.name \in CommandOps /\ rd.st = "poll" /\ rd'.st = "ok" /\ rd'.data # <<>>

\* C31: the bytes that a read of getID, getVersion, readMemory, writeMemory,
\* eraseAll or firmwareCRC returns were received after the operation wrote its
\* request: no byte left over or received late from an earlier operation is
\* at the head of the buffer
C31_NoStaleByteConsumed == [][CommandRead => stale = 0]_vars

====
